---- MODULE Spec2Model ----
(***************************************************************************)
(* Examination pass generator: grouping and filtering (data_loader.py),    *)
(* date parsing (date_formatter.py), two-up pagination (pdf_generator.py)  *)
(* and the orchestration of one run (pass_generator.py).                   *)
(*                                                                         *)
(* Python strings that the code orders, splits or parses are sequences of  *)
(* one-character strings; school names, which the code only compares for   *)
(* equality and uses as dictionary keys, are TLA+ strings.                 *)
(***************************************************************************)
EXTENDS Integers, Sequences, FiniteSets, TLC

\* ------------------------------------------------------------------------
\* Python str: code-point order, strip, split
\* ------------------------------------------------------------------------

\* The characters the model uses, in ascending code-point order.
CharOrder ==
    << " ", "+", "-", ".", "/",
       "0", "1", "2", "3", "4", "5", "6", "7", "8", "9",
       "A", "B", "C", "D", "E", "F", "G", "H", "I", "J", "K", "L", "M",
       "N", "O", "P", "Q", "R", "S", "T", "U", "V", "W", "X", "Y", "Z",
       "_",
       "a", "b", "c", "d", "e", "f", "g", "h", "i", "j", "k", "l", "m",
       "n", "o", "p", "q", "r", "s", "t", "u", "v", "w", "x", "y", "z" >>

\* ord(c), up to the order of the code points.
CodeOf ==
    [ c \in { CharOrder[n] : n \in 1..Len(CharOrder) } |->
        CHOOSE n \in 1..Len(CharOrder) : CharOrder[n] = c ]

Code(c) == CodeOf[c]

Digits == { "0", "1", "2", "3", "4", "5", "6", "7", "8", "9" }

IsDigit(c) == c \in Digits

DigitVal(c) == Code(c) - Code("0")

\* str.__lt__: lexicographic by code point, a proper prefix is smaller.
StrLess(a, b) ==
    \E i \in 1..(Len(b)) :
        /\ i <= Len(a) + 1
        /\ \A j \in 1..(i - 1) : a[j] = b[j]
        /\ \/ i = Len(a) + 1
           \/ Code(a[i]) < Code(b[i])

\* str.strip() for the blank character.
Strip(s) ==
    LET keep == { i \in 1..Len(s) : s[i] # " " }
    IN  IF keep = {} THEN << >>
        ELSE LET lo == CHOOSE i \in keep : \A j \in keep : i <= j
                 hi == CHOOSE i \in keep : \A j \in keep : j <= i
             IN  SubSeq(s, lo, hi)

\* str.split(sep) for a one-character separator: the fields between
\* successive separators, empty fields included.
SplitOn(s, sep) ==
    LET cuts == { i \in 1..Len(s) : s[i] = sep }
        \* position of the k-th separator, 0 before the first field and
        \* Len(s) + 1 after the last
        cut(k) == IF k = 0 THEN 0
                  ELSE IF k = Cardinality(cuts) + 1 THEN Len(s) + 1
                  ELSE CHOOSE i \in cuts :
                           Cardinality({ j \in cuts : j < i }) = k - 1
    IN  [ k \in 1..(Cardinality(cuts) + 1) |->
            SubSeq(s, cut(k - 1) + 1, cut(k) - 1) ]

\* str.split() without argument: the maximal runs of non-blank characters.
SplitWords(s) ==
    LET fields == SplitOn(s, " ")
        full   == { k \in 1..Len(fields) : fields[k] # << >> }
    IN  [ k \in 1..Cardinality(full) |->
            fields[CHOOSE i \in full :
                       Cardinality({ j \in full : j < i }) = k - 1] ]

\* Value of a non-empty string of decimal digits.
RECURSIVE NumVal(_)
NumVal(f) ==
    IF f = << >> THEN 0
    ELSE 10 * NumVal(SubSeq(f, 1, Len(f) - 1)) + DigitVal(f[Len(f)])

AllDigits(f) == f # << >> /\ \A i \in 1..Len(f) : IsDigit(f[i])

\* ------------------------------------------------------------------------
\* datetime.strptime for the formats of date_formatter.parse_date
\* ------------------------------------------------------------------------

\* A parse failure (Python None).
None == [ kind |-> "None" ]

\* %d : 3[0-1] | [1-2]\d | 0[1-9] | [1-9] | " "[1-9]
MatchDay(f) ==
    \/ /\ Len(f) \in {1, 2} /\ AllDigits(f) /\ NumVal(f) \in 1..31
    \/ /\ Len(f) = 2 /\ f[1] = " " /\ IsDigit(f[2]) /\ DigitVal(f[2]) \in 1..9

DayVal(f) == IF f[1] = " " THEN DigitVal(f[2]) ELSE NumVal(f)

\* %m : 1[0-2] | 0[1-9] | [1-9]
MatchMonth(f) == Len(f) \in {1, 2} /\ AllDigits(f) /\ NumVal(f) \in 1..12

\* %y : \d\d, 69..99 in the 1900s and 00..68 in the 2000s
MatchYear2(f) == Len(f) = 2 /\ AllDigits(f)

Year2Val(f) == IF NumVal(f) <= 68 THEN 2000 + NumVal(f) ELSE 1900 + NumVal(f)

\* %Y : \d\d\d\d
MatchYear4(f) == Len(f) = 4 /\ AllDigits(f)

IsLeap(y) == (y % 4 = 0) /\ ((y % 100 # 0) \/ (y % 400 = 0))

DaysInMonth(y, m) ==
    IF m = 2 THEN (IF IsLeap(y) THEN 29 ELSE 28)
    ELSE IF m \in {4, 6, 9, 11} THEN 30 ELSE 31

\* The formats, as separator and field order.
FmtDMy == [ sep |-> "/", fields |-> << "d", "m", "y" >> ]
FmtDMY == [ sep |-> "/", fields |-> << "d", "m", "Y" >> ]
FmtDMYdash == [ sep |-> "-", fields |-> << "d", "m", "Y" >> ]
FmtYMDdash == [ sep |-> "-", fields |-> << "Y", "m", "d" >> ]
FmtMDy == [ sep |-> "/", fields |-> << "m", "d", "y" >> ]
FmtMDY == [ sep |-> "/", fields |-> << "m", "d", "Y" >> ]

FieldMatches(dir, f) ==
    IF f = << >> THEN FALSE
    ELSE CASE dir = "d" -> MatchDay(f)
           [] dir = "m" -> MatchMonth(f)
           [] dir = "y" -> MatchYear2(f)
           [] dir = "Y" -> MatchYear4(f)

FieldVal(dir, f) ==
    CASE dir = "d" -> DayVal(f)
      [] dir = "m" -> NumVal(f)
      [] dir = "y" -> Year2Val(f)
      [] dir = "Y" -> NumVal(f)

\* datetime.strptime(s, fmt): the datetime, or None where Python raises
\* ValueError (no match, unconverted data, day out of range for the month,
\* year 0).
Strptime(s, fmt) ==
    LET parts == SplitOn(s, fmt.sep)
    IN  IF Len(parts) # 3 THEN None
        ELSE IF \E k \in 1..3 : ~FieldMatches(fmt.fields[k], parts[k])
        THEN None
        ELSE LET at(dirs) == CHOOSE k \in 1..3 : fmt.fields[k] \in dirs
                 val(dirs) == FieldVal(fmt.fields[at(dirs)], parts[at(dirs)])
                 y == val({"y", "Y"})
                 m == val({"m"})
                 d == val({"d"})
             IN  IF y < 1 \/ d > DaysInMonth(y, m) THEN None
                 ELSE [ kind |-> "datetime", y |-> y, m |-> m, d |-> d ]

\* date_formats with the month-first slash formats tried first.
date_formats_MonthFirst ==
    << FmtMDy, FmtMDY, FmtDMYdash, FmtYMDdash, FmtDMy, FmtDMY, FmtDMy, FmtDMY >>

\* date_formats of parse_date, in the order tried (the last two repeat the
\* first two).
date_formats ==
    << FmtDMy, FmtDMY, FmtDMYdash, FmtYMDdash, FmtMDy, FmtMDY, FmtDMy, FmtDMY >>

\* The loop over date_formats from position k on: the first format that
\* parses wins.
RECURSIVE FirstParse(_, _)
FirstParse(s, k) ==
    IF k > Len(date_formats) THEN None
    ELSE LET d == Strptime(s, date_formats[k])
         IN  IF d # None THEN d ELSE FirstParse(s, k + 1)

parse_date(date_str) ==
    IF date_str = << >> THEN None
    ELSE FirstParse(Strip(date_str), 1)

\* datetime.__lt__
DateLess(a, b) ==
    \/ a.y < b.y
    \/ a.y = b.y /\ a.m < b.m
    \/ a.y = b.y /\ a.m = b.m /\ a.d < b.d

\* ------------------------------------------------------------------------
\* Python dict (insertion-ordered) and list.sort (stable)
\* ------------------------------------------------------------------------

\* An insertion-ordered dict is a sequence of [k, v] entries with distinct
\* keys.
DictHas(d, key) == \E i \in 1..Len(d) : d[i].k = key

DictGet(d, key) == d[CHOOSE i \in 1..Len(d) : d[i].k = key].v

\* d[key] = val : replaces the value in place, or appends a new entry.
DictSet(d, key, val) ==
    IF DictHas(d, key)
    THEN [ i \in 1..Len(d) |-> IF d[i].k = key THEN [ k |-> key, v |-> val ]
                               ELSE d[i] ]
    ELSE Append(d, [ k |-> key, v |-> val ])

\* A dict whose order is never observed is a function; f[key] = val.
Put(f, key, val) ==
    [ x \in (DOMAIN f) \cup {key} |-> IF x = key THEN val ELSE f[x] ]

\* list.sort / sorted: insertion sort, each element placed after the
\* elements that are not greater than it, so equal keys keep their order.
SortBy(seq, Less(_, _)) ==
    LET insert(sorted, x) ==
            LET k == Cardinality({ j \in 1..Len(sorted) : ~Less(x, sorted[j]) })
            IN  SubSeq(sorted, 1, k) \o << x >> \o
                SubSeq(sorted, k + 1, Len(sorted))
        ins[i \in 0..Len(seq)] ==
            IF i = 0 THEN << >> ELSE insert(ins[i - 1], seq[i])
    IN  ins[Len(seq)]

\* ------------------------------------------------------------------------
\* data_loader.py
\* ------------------------------------------------------------------------

\* StudentKeyLess with the tuple the other way round: (name, section).
StudentKeyLess_NameFirst(a, b) ==
    \/ StrLess(a.name, b.name)
    \/ a.name = b.name /\ StrLess(a.section, b.section)

\* The sort key of a student within a grade: the tuple (section, name).
StudentKeyLess(a, b) ==
    \/ StrLess(a.section, b.section)
    \/ a.section = b.section /\ StrLess(a.name, b.name)

\* The grouping loop: one student appended to grouped[school][grade],
\* either level created on first use.
GroupAdd(grouped, student) ==
    LET grades == IF DictHas(grouped, student.school)
                  THEN DictGet(grouped, student.school) ELSE << >>
        list   == IF DictHas(grades, student.grade)
                  THEN DictGet(grades, student.grade) ELSE << >>
    IN  DictSet(grouped, student.school,
                DictSet(grades, student.grade, Append(list, student)))

group_students_by_school_and_grade(studs) ==
    LET acc[i \in 0..Len(studs)] ==
            IF i = 0 THEN << >> ELSE GroupAdd(acc[i - 1], studs[i])
        g == acc[Len(studs)]
    IN  [ i \in 1..Len(g) |->
            [ k |-> g[i].k,
              v |-> [ j \in 1..Len(g[i].v) |->
                        [ k |-> g[i].v[j].k,
                          v |-> SortBy(g[i].v[j].v, StudentKeyLess) ] ] ] ]

Grade10 == << "G", "r", "a", "d", "e", " ", "1", "0" >>
Grade11 == << "G", "r", "a", "d", "e", " ", "1", "1" >>
Grade12 == << "G", "r", "a", "d", "e", " ", "1", "2" >>
IGCSE   == << "I", "G", "C", "S", "E" >>
ASLEVEL == << "A", "S", " ", "L", "E", "V", "E", "L" >>
ALEVEL  == << "A", " ", "L", "E", "V", "E", "L" >>

\* _map_student_grade_to_exam_grade unified with the display-grade table
\* of the file names.
_map_student_grade_to_exam_grade_DisplayTable(student_grade) ==
    CASE student_grade = << "G", "r", "a", "d", "e", " ", "0", "9" >>
             -> << "I", "G", "C", "S", "E", " ", "J", "r" >>
      [] student_grade = Grade10 -> IGCSE
      [] student_grade = Grade11 -> << "A", "S", " ", "L", "e", "v", "e", "l" >>
      [] student_grade = Grade12 -> << "A", " ", "L", "e", "v", "e", "l" >>
      [] OTHER -> student_grade

\* _map_student_grade_to_exam_grade without the entry of Grade 12.
_map_student_grade_to_exam_grade_NoGrade12(student_grade) ==
    CASE student_grade = Grade10 -> IGCSE
      [] student_grade = Grade11 -> ASLEVEL
      [] OTHER -> student_grade

_map_student_grade_to_exam_grade(student_grade) ==
    CASE student_grade = Grade10 -> IGCSE
      [] student_grade = Grade11 -> ASLEVEL
      [] student_grade = Grade12 -> ALEVEL
      [] OTHER -> student_grade

\* The sort key of an exam: parse_date(e.exam_date) or e.exam_date.  A
\* datetime is always true, None is not.
ExamKey(e) ==
    LET d == parse_date(e.exam_date)
    IN  IF d # None THEN d ELSE [ kind |-> "str", s |-> e.exam_date ]

\* Comparison of two keys of the same type.
KeyLess(a, b) ==
    IF a.kind = "datetime" THEN DateLess(a, b) ELSE StrLess(a.s, b.s)

\* The exams of the mapped grade and the school, in input order.
FilterMatching(exs, grade, school) ==
    LET want == _map_student_grade_to_exam_grade(grade)
        keep == { i \in 1..Len(exs) :
                    exs[i].grade = want /\ exs[i].school = school }
    IN  [ k \in 1..Cardinality(keep) |->
            exs[CHOOSE i \in keep :
                    Cardinality({ j \in keep : j < i }) = k - 1] ]

\* Whether sorting the keys compares a datetime with a str, which raises
\* TypeError: every comparison sort of two or more elements compares across
\* any split of them into two classes.
SortRaises(keyed) ==
    \E m, n \in 1..Len(keyed) : keyed[m].key.kind # keyed[n].key.kind

\* The outcome of the call: the list returned, or the exception raised.
\* list.sort computes the key of every element once.
filter_exams_for_grade_and_school(exs, g, school) ==
    LET filtered == FilterMatching(exs, g, school)
        keyed    == [ n \in 1..Len(filtered) |->
                        [ e |-> filtered[n], key |-> ExamKey(filtered[n]) ] ]
        ordered  == SortBy(keyed, LAMBDA a, b : KeyLess(a.key, b.key))
    IN  IF SortRaises(keyed)
        THEN [ exc |-> "TypeError", val |-> << >> ]
        ELSE [ exc |-> "none", val |-> [ n \in 1..Len(ordered) |-> ordered[n].e ] ]

\* ------------------------------------------------------------------------
\* utils/file_manager.py
\* ------------------------------------------------------------------------

ExcelCentral == "Excel Central School"
ExcelGlobal  == "Excel Global School"
ExcelPathway == "Excel Pathway School"

Grade09 == << "G", "r", "a", "d", "e", " ", "0", "9" >>

\* get_school_abbreviation without the entry of Excel Pathway School.
get_school_abbreviation_TwoSchools(name) ==
    CASE name = ExcelCentral -> << "E", "C", "S" >>
      [] name = ExcelGlobal  -> << "E", "G", "S" >>
      [] OTHER -> << "X", "X", "X" >>

get_school_abbreviation(name) ==
    CASE name = ExcelCentral -> << "E", "C", "S" >>
      [] name = ExcelGlobal  -> << "E", "G", "S" >>
      [] name = ExcelPathway -> << "E", "P", "S" >>
      [] OTHER -> << "X", "X", "X" >>

\* get_display_grade_for_school without the test of the school.
get_display_grade_for_school_AnySchool(g, name) ==
    CASE g = Grade09 -> << "I", "G", "C", "S", "E", " ", "J", "r" >>
      [] g = Grade10 -> << "I", "G", "C", "S", "E" >>
      [] g = Grade11 -> << "A", "S", " ", "L", "e", "v", "e", "l" >>
      [] g = Grade12 -> << "A", " ", "L", "e", "v", "e", "l" >>
      [] OTHER -> g

get_display_grade_for_school(g, name) ==
    IF name = ExcelGlobal
    THEN CASE g = Grade09 -> << "I", "G", "C", "S", "E", " ", "J", "r" >>
           [] g = Grade10 -> << "I", "G", "C", "S", "E" >>
           [] g = Grade11 -> << "A", "S", " ", "L", "e", "v", "e", "l" >>
           [] g = Grade12 -> << "A", " ", "L", "e", "v", "e", "l" >>
           [] OTHER -> g
    ELSE g

\* str.replace(" ", "_")
Underscored(str) == [ n \in 1..Len(str) |-> IF str[n] = " " THEN "_" ELSE str[n] ]

\* The path returned by get_output_path: the school directory under the
\* output root and the file name in it.
get_output_path(name, g, exam_name) ==
    [ dir  |-> name,
      file |-> get_school_abbreviation(name) \o << "_" >> \o
               Underscored(get_display_grade_for_school(g, name)) \o
               << "_", "P", "a", "s", "s", "e", "s", "_" >> \o
               Underscored(exam_name) \o << ".", "p", "d", "f" >> ]

\* cleanup_empty_folders that removes nothing.
cleanup_empty_folders_KeepsAll(ds, fs) == ds

\* rmdir of every school directory that holds no file.
cleanup_empty_folders(ds, fs) ==
    { d \in ds : \E path \in DOMAIN fs : path.dir = d }

\* ------------------------------------------------------------------------
\* services/pass_generator.py: sorting key of the grades
\* ------------------------------------------------------------------------

\* Whether int(token) succeeds: an optionally signed string of decimal
\* digits.  Any other token raises ValueError.
IsIntToken(tok) ==
    \/ AllDigits(tok)
    \/ Len(tok) >= 2 /\ tok[1] \in { "+", "-" } /\ AllDigits(Tail(tok))

IntOf(tok) ==
    IF AllDigits(tok) THEN NumVal(tok)
    ELSE IF tok[1] = "+" THEN NumVal(Tail(tok))
    ELSE 0 - NumVal(Tail(tok))

\* int(grade.split()[-1]), 0 on IndexError (no word) or ValueError.
_extract_grade_number(g) ==
    LET words == SplitWords(g)
    IN  IF words = << >> THEN 0
        ELSE IF ~IsIntToken(words[Len(words)]) THEN 0
        ELSE IntOf(words[Len(words)])

\* Order of the (grade, students) items of one school.
GradeItemLess(a, b) == _extract_grade_number(a.k) < _extract_grade_number(b.k)

\* ------------------------------------------------------------------------
\* State
\* ------------------------------------------------------------------------

VARIABLES
    students,             \* load_students(): list of Student
    exams,                \* load_exams(): list of Exam
    schools,              \* load_schools(): the names in the school table
    pc,                   \* position of the control thread
    raised,               \* exception that left generate_all_passes
    result,               \* value returned by generate_all_passes
    log,                  \* logger.error / logger.warning records
    grouped,              \* school -> grade -> roster (insertion-ordered)
    si,                   \* position in grouped_students.items()
    sorted_grades,        \* sorted(grades.items(), key=...) of the school
    gi,                   \* position in sorted_grades
    school_name,          \* loop variable of the school loop
    grade,                \* loop variable of the grade loop
    school_student_count, \* local counter of the school loop
    generated_files,      \* school -> list of paths (insertion-ordered)
    student_counts,       \* self.student_counts
    grade_counts,         \* self.grade_counts
    grade_section_stats,  \* self.grade_section_stats
    grade_students,       \* argument students of generate_grade_passes
    grade_exams,          \* filtered exams, argument of generate_grade_passes
    output_path,          \* argument output_path of generate_grade_passes
    canvas,               \* PDFGenerator.canvas: the document being drawn
    i,                    \* loop index of generate_grade_passes
    success,              \* value returned by generate_grade_passes
    dirs,                 \* school directories under the output root
    files,                \* path -> document, the files on disk
    rows,                 \* the rows of student_list.csv as pandas reads them
    run,                  \* 1 in the first run on an output root, 2 in a rerun
    prev,                 \* how the previous run on the output root ended
    layout                \* _draw_pass: y_current and the blocks drawn so far

inputs == << students, exams, schools >>
loopv  == << grouped, si, sorted_grades, gi, school_name, grade,
             school_student_count, generated_files >>
stats  == << student_counts, grade_counts, grade_section_stats >>
callv  == << grade_students, grade_exams, output_path >>
pdfv   == << canvas, i, success >>
fsys   == << dirs, files >>
envv   == << rows, run, prev, layout >>
vars   == << inputs, envv, pc, raised, result, log, loopv, stats, callv, pdfv,
             fsys >>

\* No document is open.
NoCanvas == [ open |-> FALSE, path |-> None, pages |-> << >>, page |-> << >> ]

\* An empty dict / list / function.
Empty == << >>

\* ------------------------------------------------------------------------
\* Bounds and input pools
\* ------------------------------------------------------------------------

MaxRunStudents == 2
MaxRunExams == 2
MaxGroupStudents == 3
MaxFilterExams == 3
MaxLabelExams == 2
MaxTwiceStudents == 2
MaxTwiceExams == 2
MaxRoster == 4
MaxScheduleExams == 3
MaxSeriesStudents == 2
MaxSeriesExams == 2
MaxLayoutExams == 9
MaxLines == 2
MaxSectionStudents == 2
MaxDateExams == 2
MaxRows == 2

SeqsUpTo(S, n) == UNION { [ 1..k -> S ] : k \in 0..n }

KG == << "K", "G" >>
TermI == << "T", "e", "r", "m", " ", "I" >>

Date6Aug  == << "6", "/", "8", "/", "2", "5" >>
Date9Aug  == << "9", "/", "8", "/", "2", "5" >>
Date10Aug == << "1", "0", "/", "8", "/", "2", "5" >>
DateTBD   == << "T", "B", "D" >>
DateNA    == << "N", "/", "A" >>

Student(n, sc, g, sec, code) ==
    [ name |-> n, school |-> sc, grade |-> g, section |-> sec,
      enrollment_code |-> code ]

\* The fields of Exam that the grouping, filtering and naming read; day,
\* timing and academic_year are only printed.
Exam(g, subj, date, sc, en) ==
    [ grade |-> g, subject |-> subj, exam_date |-> date, school |-> sc,
      exam_name |-> en ]

\* Students of two schools: a numbered grade, a grade that the exam table
\* names differently and, in one school, a grade without a number and a
\* second section.
RunStudentPool ==
    { Student(<< "E", "d" >>, sc, g, << "A" >>, None) :
        sc \in { ExcelCentral, ExcelGlobal }, g \in { Grade09, Grade10 } }
    \cup { Student(<< "E", "d" >>, ExcelCentral, KG, << "A" >>, None),
           Student(<< "E", "d" >>, ExcelCentral, Grade09, << "B" >>, None) }

\* Exams of both schools; one school also has exams under a mapped grade
\* label and an exam whose date matches no format.
RunExamPool ==
    { Exam(Grade09, "Maths", Date6Aug, ExcelCentral, TermI),
      Exam(Grade09, "Maths", DateTBD, ExcelCentral, TermI),
      Exam(IGCSE, "Maths", Date6Aug, ExcelCentral, TermI),
      Exam(Grade09, "Maths", Date6Aug, ExcelGlobal, TermI) }

RunSchoolTables == { { ExcelCentral, ExcelGlobal }, { ExcelCentral } }

GroupStudentPool ==
    { Student(n, sg[1], sg[2], sec, code) :
        n \in { << "a" >>, << "B" >> },
        sg \in { << ExcelCentral, Grade09 >>, << ExcelCentral, Grade10 >>,
                 << ExcelGlobal, Grade09 >> },
        sec \in { << "A" >>, << "B" >> },
        code \in { None, [ kind |-> "str", s |-> << "7" >> ] } }

FilterExamPool ==
    { Exam(g, "Maths", date, sc, TermI) :
        g \in { Grade09, IGCSE },
        date \in { Date9Aug, Date10Aug, DateTBD, DateNA },
        sc \in { ExcelCentral, ExcelGlobal } }

RosterPool ==
    { Student(n, ExcelCentral, Grade09, sec, None) :
        n \in { << "a" >>, << "B" >> }, sec \in { << "A" >>, << "B" >> } }

\* ------------------------------------------------------------------------
\* Initial states
\* ------------------------------------------------------------------------

\* A fresh PassGenerator (__init__) and an empty output directory.
Fresh ==
    /\ raised = "none"
    /\ result = None
    /\ log = << >>
    /\ grouped = Empty
    /\ si = 0
    /\ sorted_grades = Empty
    /\ gi = 0
    /\ school_student_count = 0
    /\ generated_files = Empty
    /\ student_counts = Empty
    /\ grade_counts = Empty
    /\ grade_section_stats = Empty
    /\ canvas = NoCanvas
    /\ i = 0
    /\ success = FALSE
    /\ dirs = {}
    /\ files = Empty
    /\ rows = << >>
    /\ run = 1
    /\ prev = None
    /\ layout = [ y_current |-> 0, blocks |-> << >> ]

\* A run of generate_all_passes on loaded record sets.
Init ==
    /\ students \in SeqsUpTo(RunStudentPool, MaxRunStudents)
    /\ exams \in SeqsUpTo(RunExamPool, MaxRunExams)
    /\ schools \in RunSchoolTables
    /\ pc = "idle"
    /\ school_name = ""
    /\ grade = << >>
    /\ grade_students = Empty
    /\ grade_exams = Empty
    /\ output_path = None
    /\ Fresh

\* ------------------------------------------------------------------------
\* generate_all_passes: loading and grouping
\* ------------------------------------------------------------------------

\* if not students: logger.error(...); return {}
CallNoStudents ==
    /\ pc = "idle"
    /\ students = << >>
    /\ log' = Append(log, "error: No students found")
    /\ result' = Empty
    /\ pc' = "returned"
    /\ UNCHANGED << inputs, envv, raised, loopv, stats, callv, pdfv, fsys >>

\* CallNoExams without the early return: the run goes on to the grouping.
CallNoExams_Proceeds ==
    /\ pc = "idle"
    /\ students # << >>
    /\ exams = << >>
    /\ grouped' = group_students_by_school_and_grade(students)
    /\ generated_files' = Empty
    /\ si' = 1
    /\ pc' = "schools"
    /\ UNCHANGED << inputs, envv, raised, result, log, sorted_grades, gi,
                    school_name, grade, school_student_count, stats, callv,
                    pdfv, fsys >>

\* if not exams: logger.error(...); return {}
CallNoExams ==
    /\ pc = "idle"
    /\ students # << >>
    /\ exams = << >>
    /\ log' = Append(log, "error: No exams found")
    /\ result' = Empty
    /\ pc' = "returned"
    /\ UNCHANGED << inputs, envv, raised, loopv, stats, callv, pdfv, fsys >>

\* grouped_students = group_students_by_school_and_grade(students);
\* generated_files = {}
CallGroup ==
    /\ pc = "idle"
    /\ students # << >>
    /\ exams # << >>
    /\ grouped' = group_students_by_school_and_grade(students)
    /\ generated_files' = Empty
    /\ si' = 1
    /\ pc' = "schools"
    /\ UNCHANGED << inputs, envv, raised, result, log, sorted_grades, gi,
                    school_name, grade, school_student_count, stats, callv,
                    pdfv, fsys >>

\* ------------------------------------------------------------------------
\* generate_all_passes: the school loop
\* ------------------------------------------------------------------------

\* SkipSchool without the "continue": the school is processed although the
\* school table does not hold it.
SkipSchool_Processes ==
    /\ pc = "schools"
    /\ si <= Len(grouped)
    /\ grouped[si].k \notin schools
    /\ log' = Append(log, "warning: School not found in school list")
    /\ school_name' = grouped[si].k
    /\ generated_files' = DictSet(generated_files, grouped[si].k, << >>)
    /\ school_student_count' = 0
    /\ grade_section_stats' =
           IF grouped[si].k \in DOMAIN grade_section_stats
           THEN grade_section_stats
           ELSE Put(grade_section_stats, grouped[si].k, << >>)
    /\ sorted_grades' = SortBy(grouped[si].v, GradeItemLess)
    /\ gi' = 1
    /\ pc' = "grades"
    /\ UNCHANGED << inputs, envv, raised, result, grouped, si, grade,
                    student_counts, grade_counts, callv, pdfv, fsys >>

\* if school_name not in schools: logger.warning(...); continue
SkipSchool ==
    /\ pc = "schools"
    /\ si <= Len(grouped)
    /\ grouped[si].k \notin schools
    /\ log' = Append(log, "warning: School not found in school list")
    /\ si' = si + 1
    /\ UNCHANGED << inputs, envv, pc, raised, result, grouped, sorted_grades, gi,
                    school_name, grade, school_student_count,
                    generated_files, stats, callv, pdfv, fsys >>

\* The head of the school loop body, up to the sorted grade items.
BeginSchool ==
    /\ pc = "schools"
    /\ si <= Len(grouped)
    /\ grouped[si].k \in schools
    /\ school_name' = grouped[si].k
    /\ generated_files' = DictSet(generated_files, grouped[si].k, << >>)
    /\ school_student_count' = 0
    /\ grade_section_stats' =
           IF grouped[si].k \in DOMAIN grade_section_stats
           THEN grade_section_stats
           ELSE Put(grade_section_stats, grouped[si].k, Empty)
    /\ sorted_grades' = SortBy(grouped[si].v, GradeItemLess)
    /\ gi' = 1
    /\ pc' = "grades"
    /\ UNCHANGED << inputs, envv, raised, result, log, grouped, si, grade,
                    student_counts, grade_counts, callv, pdfv, fsys >>

\* The school loop is exhausted.
EndSchools ==
    /\ pc = "schools"
    /\ si > Len(grouped)
    /\ pc' = "totals"
    /\ UNCHANGED << inputs, envv, raised, result, log, loopv, stats, callv, pdfv,
                    fsys >>

\* ------------------------------------------------------------------------
\* generate_all_passes: the grade loop
\* ------------------------------------------------------------------------

\* The filter call of the current grade item.
FilterOfItem ==
    filter_exams_for_grade_and_school(exams, sorted_grades[gi].k, school_name)

\* The sort inside filter_exams_for_grade_and_school raises; nothing in
\* generate_all_passes catches it.
FilterRaises ==
    /\ pc = "grades"
    /\ gi <= Len(sorted_grades)
    /\ LET r == FilterOfItem
       IN  /\ r.exc # "none"
           /\ raised' = r.exc
    /\ grade' = sorted_grades[gi].k
    /\ pc' = "raised"
    /\ UNCHANGED << inputs, envv, result, log, grouped, si, sorted_grades, gi,
                    school_name, school_student_count, generated_files,
                    stats, callv, pdfv, fsys >>

\* SkipGrade with the students of the skipped grade added to the running
\* count of the school.
SkipGrade_Counted ==
    /\ pc = "grades"
    /\ gi <= Len(sorted_grades)
    /\ FilterOfItem = [ exc |-> "none", val |-> << >> ]
    /\ grade' = sorted_grades[gi].k
    /\ grade_exams' = << >>
    /\ school_student_count' = school_student_count + Len(sorted_grades[gi].v)
    /\ gi' = gi + 1
    /\ UNCHANGED << inputs, envv, pc, raised, result, log, grouped, si,
                    sorted_grades, school_name, generated_files, stats,
                    grade_students, output_path, pdfv, fsys >>

\* SkipGrade that also unlinks the PDF an earlier run left for the grade.
SkipGrade_RemovesStale ==
    /\ pc = "grades"
    /\ gi <= Len(sorted_grades)
    /\ FilterOfItem = [ exc |-> "none", val |-> << >> ]
    /\ grade' = sorted_grades[gi].k
    /\ grade_exams' = << >>
    /\ gi' = gi + 1
    /\ files' = [ path \in DOMAIN files
                       \ { get_output_path(school_name, sorted_grades[gi].k,
                                           << "T", "e", "r", "m", " ", "I" >>) }
                   |-> files[path] ]
    /\ UNCHANGED << inputs, envv, pc, raised, result, log, grouped, si,
                    sorted_grades, school_name, school_student_count,
                    generated_files, stats, grade_students, output_path,
                    pdfv, dirs >>

\* SkipGrade that hands the grade to the generator with its empty exam
\* list, under the fallback exam name.
SkipGrade_Generates ==
    /\ pc = "grades"
    /\ gi <= Len(sorted_grades)
    /\ FilterOfItem = [ exc |-> "none", val |-> << >> ]
    /\ grade' = sorted_grades[gi].k
    /\ grade_exams' = << >>
    /\ grade_students' = sorted_grades[gi].v
    /\ output_path' = get_output_path(school_name, sorted_grades[gi].k, TermI)
    /\ dirs' = dirs \cup { school_name }
    /\ pc' = "open"
    /\ UNCHANGED << inputs, envv, raised, result, log, grouped, si,
                    sorted_grades, gi, school_name, school_student_count,
                    generated_files, stats, pdfv, files >>

\* if not grade_exams: logger.info(...); continue
SkipGrade ==
    /\ pc = "grades"
    /\ gi <= Len(sorted_grades)
    /\ FilterOfItem = [ exc |-> "none", val |-> << >> ]
    /\ grade' = sorted_grades[gi].k
    /\ grade_exams' = << >>
    /\ gi' = gi + 1
    /\ UNCHANGED << inputs, envv, pc, raised, result, log, grouped, si,
                    sorted_grades, school_name, school_student_count,
                    generated_files, stats, grade_students, output_path,
                    pdfv, fsys >>

\* section_counts of a roster.
SectionCounts(roster) ==
    LET acc[n \in 0..Len(roster)] ==
            IF n = 0 THEN Empty
            ELSE LET sec == roster[n].section
                 IN  Put(acc[n - 1], sec,
                         (IF sec \in DOMAIN acc[n - 1] THEN acc[n - 1][sec]
                          ELSE 0) + 1)
    IN  acc[Len(roster)]

NewGradeStats ==
    [ with_passes |-> Empty, total_with_passes |-> 0, total_by_section |-> Empty ]

\* The grade has exams: counts and statistics, exam name, output path (which
\* creates the school directory), up to the call of generate_grade_passes.
PrepareGrade ==
    /\ pc = "grades"
    /\ gi <= Len(sorted_grades)
    /\ LET r      == FilterOfItem
           g      == sorted_grades[gi].k
           roster == sorted_grades[gi].v
           old    == IF g \in DOMAIN grade_section_stats[school_name]
                     THEN grade_section_stats[school_name][g]
                     ELSE NewGradeStats
           new    == [ old EXCEPT !.with_passes = SectionCounts(roster),
                                  !.total_with_passes = Len(roster) ]
       IN  /\ r.exc = "none"
           /\ r.val # << >>
           /\ grade' = g
           /\ grade_exams' = r.val
           /\ grade_students' = roster
           /\ school_student_count' = school_student_count + Len(roster)
           /\ grade_section_stats' =
                  Put(grade_section_stats, school_name,
                      Put(grade_section_stats[school_name], g, new))
           /\ output_path' =
                  get_output_path(school_name, g, r.val[1].exam_name)
           /\ dirs' = dirs \cup { school_name }
    /\ pc' = "open"
    /\ UNCHANGED << inputs, envv, raised, result, log, grouped, si, sorted_grades,
                    gi, school_name, generated_files, student_counts,
                    grade_counts, pdfv, files >>

\* RecordGenerated without the test of the flag: the path is appended
\* whatever generate_grade_passes returned.
RecordGenerated_Always ==
    /\ pc = "generated"
    /\ generated_files' =
           DictSet(generated_files, school_name,
                   Append(DictGet(generated_files, school_name), output_path))
    /\ gi' = gi + 1
    /\ pc' = "grades"
    /\ UNCHANGED << inputs, envv, raised, result, log, grouped, si, sorted_grades,
                    school_name, grade, school_student_count, stats, callv,
                    pdfv, fsys >>

\* if success: generated_files[school_name].append(str(output_path))
RecordGenerated ==
    /\ pc = "generated"
    /\ generated_files' =
           IF success
           THEN DictSet(generated_files, school_name,
                        Append(DictGet(generated_files, school_name),
                               output_path))
           ELSE generated_files
    /\ gi' = gi + 1
    /\ pc' = "grades"
    /\ UNCHANGED << inputs, envv, raised, result, log, grouped, si, sorted_grades,
                    school_name, grade, school_student_count, stats, callv,
                    pdfv, fsys >>

\* The grade loop is exhausted:
\* self.student_counts[school_name] = school_student_count
EndGrades ==
    /\ pc = "grades"
    /\ gi > Len(sorted_grades)
    /\ student_counts' = Put(student_counts, school_name, school_student_count)
    /\ si' = si + 1
    /\ pc' = "schools"
    /\ UNCHANGED << inputs, envv, raised, result, log, grouped, sorted_grades, gi,
                    school_name, grade, school_student_count,
                    generated_files, grade_counts, grade_section_stats,
                    callv, pdfv, fsys >>

\* ------------------------------------------------------------------------
\* services/pdf_generator.py: generate_grade_passes
\* ------------------------------------------------------------------------

\* _draw_pass(student, exams, school, is_left) and _draw_center_divider()
\* as marks on the current page.
DrawPass(student, exs, side) ==
    [ op |-> "pass", side |-> side, student |-> student, exams |-> exs ]

DrawDivider ==
    [ op |-> "divider", side |-> "centre", student |-> None, exams |-> << >> ]

\* canvas.showPage(): the current page is closed and a new one begun.
ShowPage(cv) == [ cv EXCEPT !.pages = Append(cv.pages, cv.page), !.page = << >> ]

\* canvas.save(): a page that carries marks is closed first.
PagesOnSave(cv) == IF cv.page # << >> THEN Append(cv.pages, cv.page) ELSE cv.pages

\* OpenCanvas that goes on drawing on the pages of the previous document.
OpenCanvas_KeepsPages ==
    /\ pc = "open"
    /\ canvas' = [ canvas EXCEPT !.open = TRUE, !.path = output_path ]
    /\ i' = 0
    /\ pc' = "draw"
    /\ UNCHANGED << inputs, envv, raised, result, log, loopv, stats, callv, success,
                    fsys >>

\* self.canvas = canvas.Canvas(str(output_path), ...)
OpenCanvas ==
    /\ pc = "open"
    /\ canvas' = [ open |-> TRUE, path |-> output_path, pages |-> << >>,
                   page |-> << >> ]
    /\ i' = 0
    /\ pc' = "draw"
    /\ UNCHANGED << inputs, envv, raised, result, log, loopv, stats, callv, success,
                    fsys >>

\* Opening the target raises; except Exception: logger.error; return False
OpenFails ==
    /\ pc = "open"
    /\ log' = Append(log, "error: Error generating PDF")
    /\ success' = FALSE
    /\ pc' = "generated"
    /\ UNCHANGED << inputs, envv, raised, result, loopv, stats, callv, canvas, i,
                    fsys >>

\* PairMarks whose right pass leaves out the first exam of the list.
PairMarks_RightPassDropsAnExam(roster, exs, idx) ==
    << DrawPass(roster[idx + 1], exs, "left") >> \o
    (IF idx + 1 < Len(roster)
     THEN << DrawPass(roster[idx + 2], Tail(exs), "right") >> ELSE << >>) \o
    << DrawDivider >>

\* PairMarks with the right pass drawn only when a further pair follows.
PairMarks_RightOnlyBeforeNextPair(roster, exs, idx) ==
    << DrawPass(roster[idx + 1], exs, "left") >> \o
    (IF idx + 2 < Len(roster)
     THEN << DrawPass(roster[idx + 2], exs, "right") >> ELSE << >>) \o
    << DrawDivider >>

\* The marks of the loop body for the 0-based index idx: the left pass of
\* students[idx], the right pass of students[idx + 1] if it exists, the
\* centre divider.
PairMarks(roster, exs, idx) ==
    << DrawPass(roster[idx + 1], exs, "left") >> \o
    (IF idx + 1 < Len(roster)
     THEN << DrawPass(roster[idx + 2], exs, "right") >> ELSE << >>) \o
    << DrawDivider >>

\* One iteration of "for i in range(0, len(students), 2)".
DrawPair ==
    /\ pc = "draw"
    /\ i < Len(grade_students)
    /\ LET drawn == [ canvas EXCEPT
                        !.page = canvas.page \o
                                 PairMarks(grade_students, grade_exams, i) ]
       IN  canvas' = IF i + 2 < Len(grade_students) THEN ShowPage(drawn)
                     ELSE drawn
    /\ i' = i + 2
    /\ UNCHANGED << inputs, envv, pc, raised, result, log, loopv, stats, callv,
                    success, fsys >>

\* SaveCanvas that appends the pages to the document already at the path
\* instead of overwriting it.
SaveCanvas_Appends ==
    /\ pc = "draw"
    /\ i >= Len(grade_students)
    /\ files' = Put(files, canvas.path,
                    [ pages |-> (IF canvas.path \in DOMAIN files
                                 THEN files[canvas.path].pages ELSE << >>)
                                \o PagesOnSave(canvas),
                      complete |-> TRUE ])
    /\ canvas' = [ canvas EXCEPT !.open = FALSE, !.pages = PagesOnSave(canvas),
                                 !.page = << >> ]
    /\ success' = TRUE
    /\ pc' = "generated"
    /\ UNCHANGED << inputs, envv, raised, result, log, loopv, stats, callv, i,
                    dirs >>

\* self.canvas.save(); return True
SaveCanvas ==
    /\ pc = "draw"
    /\ i >= Len(grade_students)
    /\ files' = Put(files, canvas.path,
                    [ pages |-> PagesOnSave(canvas), complete |-> TRUE ])
    /\ canvas' = [ canvas EXCEPT !.open = FALSE, !.pages = PagesOnSave(canvas),
                                 !.page = << >> ]
    /\ success' = TRUE
    /\ pc' = "generated"
    /\ UNCHANGED << inputs, envv, raised, result, log, loopv, stats, callv, i, dirs >>

\* Saving raises; the target is left untouched or truncated.
\* except Exception: logger.error; return False
SaveFails ==
    /\ pc = "draw"
    /\ i >= Len(grade_students)
    /\ \E truncated \in BOOLEAN :
           files' = IF truncated
                    THEN Put(files, canvas.path,
                             [ pages |-> << >>, complete |-> FALSE ])
                    ELSE files
    /\ canvas' = [ canvas EXCEPT !.open = FALSE ]
    /\ log' = Append(log, "error: Error generating PDF")
    /\ success' = FALSE
    /\ pc' = "generated"
    /\ UNCHANGED << inputs, envv, raised, result, loopv, stats, callv, i, dirs >>

\* ------------------------------------------------------------------------
\* generate_all_passes: totals, cleanup, return
\* ------------------------------------------------------------------------

\* AddSections that notes a section as present instead of counting its
\* students.
AddSections_OncePerSection(tbs, roster) ==
    LET acc[n \in 0..Len(roster)] ==
            IF n = 0 THEN tbs
            ELSE Put(acc[n - 1], roster[n].section, 1)
    IN  acc[Len(roster)]

\* total_by_section after counting every student of a roster.
AddSections(tbs, roster) ==
    LET acc[n \in 0..Len(roster)] ==
            IF n = 0 THEN tbs
            ELSE LET sec == roster[n].section
                 IN  Put(acc[n - 1], sec,
                         (IF sec \in DOMAIN acc[n - 1] THEN acc[n - 1][sec]
                          ELSE 0) + 1)
    IN  acc[Len(roster)]

\* The statistics of one school after the inner loop over its grades.
AddGradeTotals(gstats, items) ==
    LET acc[n \in 0..Len(items)] ==
            IF n = 0 THEN gstats
            ELSE LET g   == items[n].k
                     old == IF g \in DOMAIN acc[n - 1] THEN acc[n - 1][g]
                            ELSE NewGradeStats
                 IN  Put(acc[n - 1], g,
                         [ old EXCEPT !.total_by_section =
                               AddSections(old.total_by_section, items[n].v) ])
    IN  acc[Len(items)]

\* sum(len(students) for students in grades.values())
TotalInSchool(items) ==
    LET acc[n \in 0..Len(items)] ==
            IF n = 0 THEN 0 ELSE acc[n - 1] + Len(items[n].v)
    IN  acc[Len(items)]

\* The second loop over grouped_students: totals per school and per
\* grade and section, schools and grades without passes included.
Totals ==
    /\ pc = "totals"
    /\ LET sc[n \in 0..Len(grouped)] ==
               IF n = 0 THEN student_counts
               ELSE IF grouped[n].k \in DOMAIN sc[n - 1] THEN sc[n - 1]
               ELSE Put(sc[n - 1], grouped[n].k, 0)
           gc[n \in 0..Len(grouped)] ==
               IF n = 0 THEN grade_counts
               ELSE Put(gc[n - 1], grouped[n].k, TotalInSchool(grouped[n].v))
           gs[n \in 0..Len(grouped)] ==
               IF n = 0 THEN grade_section_stats
               ELSE LET name == grouped[n].k
                        old  == IF name \in DOMAIN gs[n - 1] THEN gs[n - 1][name]
                                ELSE Empty
                    IN  Put(gs[n - 1], name, AddGradeTotals(old, grouped[n].v))
       IN  /\ student_counts' = sc[Len(grouped)]
           /\ grade_counts' = gc[Len(grouped)]
           /\ grade_section_stats' = gs[Len(grouped)]
    /\ pc' = "cleanup"
    /\ UNCHANGED << inputs, envv, raised, result, log, loopv, callv, pdfv, fsys >>

\* cleanup_empty_folders(config.OUTPUT_DIR); return generated_files
CleanupAndReturn ==
    /\ pc = "cleanup"
    /\ dirs' = cleanup_empty_folders(dirs, files)
    /\ result' = generated_files
    /\ pc' = "returned"
    /\ UNCHANGED << inputs, envv, raised, log, loopv, stats, callv, pdfv, files >>

\* ------------------------------------------------------------------------
\* Specifications
\* ------------------------------------------------------------------------

Next ==
    \/ CallNoStudents
    \/ CallNoExams
    \/ CallGroup
    \/ SkipSchool
    \/ BeginSchool
    \/ EndSchools
    \/ FilterRaises
    \/ SkipGrade
    \/ PrepareGrade
    \/ OpenCanvas
    \/ OpenFails
    \/ DrawPair
    \/ SaveCanvas
    \/ SaveFails
    \/ RecordGenerated
    \/ EndGrades
    \/ Totals
    \/ CleanupAndReturn

Spec == Init /\ [][Next]_vars

\* group_students_by_school_and_grade on its own.
InitGroup ==
    /\ students \in SeqsUpTo(GroupStudentPool, MaxGroupStudents)
    /\ exams = << >>
    /\ schools = {}
    /\ pc = "group"
    /\ school_name = ""
    /\ grade = << >>
    /\ grade_students = Empty
    /\ grade_exams = Empty
    /\ output_path = None
    /\ Fresh

GroupCall ==
    /\ pc = "group"
    /\ grouped' = group_students_by_school_and_grade(students)
    /\ pc' = "grouped"
    /\ UNCHANGED << inputs, envv, raised, result, log, si, sorted_grades, gi,
                    school_name, grade, school_student_count,
                    generated_files, stats, callv, pdfv, fsys >>

NextGroup == GroupCall

SpecGroup == InitGroup /\ [][NextGroup]_vars

\* filter_exams_for_grade_and_school on its own.
InitFilter ==
    /\ students = << >>
    /\ exams \in SeqsUpTo(FilterExamPool, MaxFilterExams)
    /\ schools = {}
    /\ pc = "filter"
    /\ school_name \in { ExcelCentral, ExcelGlobal }
    /\ grade \in { Grade09, Grade10 }
    /\ grade_students = Empty
    /\ grade_exams = Empty
    /\ output_path = None
    /\ Fresh

FilterCall ==
    /\ pc = "filter"
    /\ LET r == filter_exams_for_grade_and_school(exams, grade, school_name)
       IN  /\ raised' = r.exc
           /\ grade_exams' = r.val
    /\ pc' = "filtered"
    /\ UNCHANGED << inputs, envv, result, log, loopv, stats, grade_students,
                    output_path, pdfv, fsys >>

NextFilter == FilterCall

SpecFilter == InitFilter /\ [][NextFilter]_vars

\* generate_grade_passes on its own, on a roster as the grouping hands it
\* over: not empty, one school and grade, sorted by (section, name).
InitPdf ==
    /\ students = << >>
    /\ exams = << >>
    /\ schools = { ExcelCentral }
    /\ pc = "open"
    /\ school_name = ExcelCentral
    /\ grade = Grade09
    /\ grade_students \in
           { r \in SeqsUpTo(RosterPool, MaxRoster) :
               r # << >> /\ SortBy(r, StudentKeyLess) = r }
    /\ grade_exams \in
           { << Exam(Grade09, "Maths", Date6Aug, ExcelCentral, TermI) >>,
             << Exam(Grade09, "Maths", Date6Aug, ExcelCentral, TermI),
                Exam(Grade09, "Physics", Date9Aug, ExcelCentral, TermI) >> }
    /\ output_path = get_output_path(ExcelCentral, Grade09, TermI)
    /\ raised = "none"
    /\ result = None
    /\ log = << >>
    /\ grouped = Empty
    /\ si = 0
    /\ sorted_grades = Empty
    /\ gi = 0
    /\ school_student_count = 0
    /\ generated_files = Empty
    /\ student_counts = Empty
    /\ grade_counts = Empty
    /\ grade_section_stats = Empty
    /\ canvas = NoCanvas
    /\ i = 0
    /\ success = FALSE
    /\ dirs = { ExcelCentral }
    /\ files = Empty
    /\ rows = << >>
    /\ run = 1
    /\ prev = None
    /\ layout = [ y_current |-> 0, blocks |-> << >> ]

NextPdf ==
    \/ OpenCanvas
    \/ OpenFails
    \/ DrawPair
    \/ SaveCanvas
    \/ SaveFails

SpecPdf == InitPdf /\ [][NextPdf]_vars

\* get_output_path on its own: any school name, grade label and exam
\* series name, the school directory present or not.
Grade13 == << "G", "r", "a", "d", "e", " ", "1", "3" >>

InitPath ==
    /\ students = << >>
    /\ exams = << >>
    /\ schools = {}
    /\ pc = "path"
    /\ school_name \in { ExcelCentral, ExcelGlobal, ExcelPathway,
                          "Sunrise Academy", "excel global school" }
    /\ grade \in { Grade09, Grade10, Grade11, Grade12, Grade13, IGCSE, KG,
                    << "g", "r", "a", "d", "e", " ", "0", "9" >> }
    /\ grade_students = Empty
    /\ \E en \in { TermI,
                    << "M", "i", "d", " ", "T", "e", "r", "m", " ", "2" >> } :
           grade_exams = << Exam(_map_student_grade_to_exam_grade(grade),
                                 "Maths", Date6Aug, school_name, en) >>
    /\ output_path = None
    /\ raised = "none"
    /\ result = None
    /\ log = << >>
    /\ grouped = Empty
    /\ si = 0
    /\ sorted_grades = Empty
    /\ gi = 0
    /\ school_student_count = 0
    /\ generated_files = Empty
    /\ student_counts = Empty
    /\ grade_counts = Empty
    /\ grade_section_stats = Empty
    /\ canvas = NoCanvas
    /\ i = 0
    /\ success = FALSE
    /\ dirs \in { {}, { school_name }, { ExcelCentral } }
    /\ files = Empty
    /\ rows = << >>
    /\ run = 1
    /\ prev = None
    /\ layout = [ y_current |-> 0, blocks |-> << >> ]

\* output_path = get_output_path(school_name, grade, exam_name, OUTPUT_DIR);
\* school_dir.mkdir(parents=True, exist_ok=True) inside it.
PathCall ==
    /\ pc = "path"
    /\ output_path' =
           get_output_path(school_name, grade, grade_exams[1].exam_name)
    /\ dirs' = dirs \cup { school_name }
    /\ pc' = "pathed"
    /\ UNCHANGED << inputs, envv, raised, result, log, loopv, stats,
                    grade_students, grade_exams, pdfv, files >>

NextPath == PathCall

SpecPath == InitPath /\ [][NextPath]_vars

\* filter_exams_for_grade_and_school over the grade labels of both
\* vocabularies, every exam with the same parseable date.
InitLabels ==
    /\ students = << >>
    /\ exams \in SeqsUpTo({ Exam(g, "Maths", Date6Aug, sc, TermI) :
                              g \in { Grade09, Grade10, Grade11, Grade12,
                                      Grade13, IGCSE, ASLEVEL, ALEVEL,
                                      << "I", "G", "C", "S", "E", " ",
                                         "J", "r" >> },
                              sc \in { ExcelCentral, ExcelGlobal } },
                          MaxLabelExams)
    /\ schools = {}
    /\ pc = "filter"
    /\ school_name \in { ExcelCentral, ExcelGlobal }
    /\ grade \in { Grade09, Grade10, Grade11, Grade12, Grade13, IGCSE,
                   << "I", "G", "C", "S", "E", " ", "J", "r" >> }
    /\ grade_students = Empty
    /\ grade_exams = Empty
    /\ output_path = None
    /\ Fresh

SpecLabels == InitLabels /\ [][NextFilter]_vars

\* Two runs on one output root: main() builds a new PassGenerator and calls
\* generate_all_passes again, on the same exam list or on one that lost its
\* first exam; the output directory is what the first run left.
InitTwice ==
    /\ students \in
           SeqsUpTo({ Student(<< "E", "d" >>, ExcelCentral, Grade09,
                              << "A" >>, None),
                      Student(<< "E", "d" >>, ExcelCentral, Grade10,
                              << "A" >>, None),
                      Student(<< "E", "d" >>, ExcelGlobal, Grade09,
                              << "A" >>, None) },
                    MaxTwiceStudents)
    /\ exams \in
           SeqsUpTo({ Exam(Grade09, "Maths", Date6Aug, ExcelCentral, TermI),
                      Exam(IGCSE, "Maths", Date6Aug, ExcelCentral, TermI),
                      Exam(Grade09, "Maths", DateTBD, ExcelCentral, TermI) },
                    MaxTwiceExams)
    /\ schools = { ExcelCentral }
    /\ pc = "idle"
    /\ school_name = ""
    /\ grade = << >>
    /\ grade_students = Empty
    /\ grade_exams = Empty
    /\ output_path = None
    /\ Fresh

\* The second invocation: every object of the first is gone, the files and
\* directories it left are there.
RunAgain ==
    /\ pc \in { "returned", "raised" }
    /\ run = 1
    /\ run' = 2
    /\ prev' = [ pc |-> pc, result |-> result, generated |-> generated_files,
                 log |-> log, exams |-> exams, files |-> files,
                 dirs |-> dirs ]
    /\ exams' \in { exams } \cup (IF exams = << >> THEN {} ELSE { Tail(exams) })
    /\ pc' = "idle"
    /\ raised' = "none"
    /\ result' = None
    /\ log' = << >>
    /\ grouped' = Empty
    /\ si' = 0
    /\ sorted_grades' = Empty
    /\ gi' = 0
    /\ school_name' = ""
    /\ grade' = << >>
    /\ school_student_count' = 0
    /\ generated_files' = Empty
    /\ student_counts' = Empty
    /\ grade_counts' = Empty
    /\ grade_section_stats' = Empty
    /\ grade_students' = Empty
    /\ grade_exams' = Empty
    /\ output_path' = None
    /\ canvas' = NoCanvas
    /\ i' = 0
    /\ success' = FALSE
    /\ UNCHANGED << students, schools, rows, layout, fsys >>

NextTwice ==
    \/ Next
    \/ RunAgain

SpecTwice == InitTwice /\ [][NextTwice]_vars

\* ------------------------------------------------------------------------
\* services/data_loader.py: load_students
\* ------------------------------------------------------------------------

\* The value pandas gives an empty CSV cell.
NaN == [ kind |-> "NaN" ]

\* str(value) of a cell: the text of a text cell, "nan" for the missing
\* value.
PyStr(cell) == IF cell = NaN THEN << "n", "a", "n" >> ELSE cell.s

\* The fields load_students extracts from one row; the school is kept as
\* the text the cell holds.
StudentOfRow(r) ==
    LET stripped == Strip(PyStr(r.name))
        \* name.replace('.', '')
        plain == SelectSeq(stripped, LAMBDA c : c # ".")
        \* ' '.join(name.split())
        words == SplitWords(plain)
        join[n \in 0..Len(words)] ==
            IF n = 0 THEN << >>
            ELSE IF n = 1 THEN words[1]
            ELSE join[n - 1] \o << " " >> \o words[n]
        code == Strip(PyStr(r.code))
    IN  Student(join[Len(words)], Strip(PyStr(r.school)),
                Strip(PyStr(r.grade)), Strip(PyStr(r.section)),
                IF code \in { << >>, << "n", "a", "n" >>,
                              << "N", "o", "n", "e" >> }
                THEN None ELSE [ kind |-> "str", s |-> code ])

\* The loop over df.iterrows(): "if not all([name, school, grade]): continue".
load_students(rs) ==
    SelectSeq([ n \in 1..Len(rs) |-> StudentOfRow(rs[n]) ],
              LAMBDA x : x.name # << >> /\ x.school # << >> /\ x.grade # << >>)

\* load_students on a student_list.csv whose cells are text, blank text or
\* empty.
InitLoad ==
    /\ rows \in SeqsUpTo(
           [ name : { NaN } \cup
                    [ kind : { "str" },
                      s : { << " " >>, << "." >>, << "E", "d" >>,
                            << "A", ".", " ", " ", "B" >> } ],
             school : { NaN, [ kind |-> "str",
                               s |-> << "E", "x", "c", "e", "l" >> ] },
             grade : { NaN, [ kind |-> "str", s |-> Grade09 ] },
             section : { NaN, [ kind |-> "str", s |-> << "A" >> ] },
             code : { NaN, [ kind |-> "str", s |-> << "7" >> ] } ],
           MaxRows)
    /\ students = << >>
    /\ exams = << >>
    /\ schools = {}
    /\ pc = "load"
    /\ school_name = ""
    /\ grade = << >>
    /\ grade_students = Empty
    /\ grade_exams = Empty
    /\ output_path = None
    /\ raised = "none"
    /\ result = None
    /\ log = << >>
    /\ grouped = Empty
    /\ si = 0
    /\ sorted_grades = Empty
    /\ gi = 0
    /\ school_student_count = 0
    /\ generated_files = Empty
    /\ student_counts = Empty
    /\ grade_counts = Empty
    /\ grade_section_stats = Empty
    /\ canvas = NoCanvas
    /\ i = 0
    /\ success = FALSE
    /\ dirs = {}
    /\ files = Empty
    /\ run = 1
    /\ prev = None
    /\ layout = [ y_current |-> 0, blocks |-> << >> ]

\* students = self.data_loader.load_students()
LoadCall ==
    /\ pc = "load"
    /\ students' = load_students(rows)
    /\ pc' = "loaded"
    /\ UNCHANGED << exams, schools, envv, raised, result, log, loopv, stats,
                    callv, pdfv, fsys >>

SpecLoad == InitLoad /\ [][LoadCall]_vars

\* ------------------------------------------------------------------------
\* models/exam.py: Exam.formatted_date
\* ------------------------------------------------------------------------

\* exam_date_formats with the month-first slash formats tried first.
exam_date_formats_MonthFirst ==
    << FmtMDy, FmtMDY, FmtDMYdash, FmtYMDdash, FmtDMy, FmtDMY >>

\* The date_formats list of Exam.formatted_date.
exam_date_formats ==
    << FmtDMy, FmtDMY, FmtDMYdash, FmtYMDdash, FmtMDy, FmtMDY >>

\* date_obj.strftime("%d %b %Y") in the C locale, for a year of four digits.
strftime_d_b_Y(date) ==
    LET digit(n) == CharOrder[Code("0") + n]
        month == << << "J", "a", "n" >>, << "F", "e", "b" >>,
                    << "M", "a", "r" >>, << "A", "p", "r" >>,
                    << "M", "a", "y" >>, << "J", "u", "n" >>,
                    << "J", "u", "l" >>, << "A", "u", "g" >>,
                    << "S", "e", "p" >>, << "O", "c", "t" >>,
                    << "N", "o", "v" >>, << "D", "e", "c" >> >>
    IN  << digit(date.d \div 10), digit(date.d % 10), " " >> \o
        month[date.m] \o
        << " ", digit(date.y \div 1000), digit((date.y \div 100) % 10),
           digit((date.y \div 10) % 10), digit(date.y % 10) >>

\* The first format that parses the stripped string is rendered; the
\* original string is returned when none does.
formatted_date(e) ==
    LET s    == Strip(e.exam_date)
        hits == { k \in 1..Len(exam_date_formats) :
                    Strptime(s, exam_date_formats[k]) # None }
    IN  IF hits = {} THEN e.exam_date
        ELSE strftime_d_b_Y(
                 Strptime(s, exam_date_formats[
                                 CHOOSE k \in hits : \A j \in hits : k <= j]))

\* formatted_date of every exam of a list whose dates are written in the
\* accepted formats, in none of them, or with blanks around.
InitDate ==
    /\ students = << >>
    /\ exams \in
           SeqsUpTo({ Exam(Grade09, "Maths", date, ExcelCentral, TermI) :
                        date \in
                          { Date6Aug, DateTBD, DateNA,
                            << "1", "3", "/", "8", "/", "2", "5" >>,
                            << "8", "/", "1", "3", "/", "2", "5" >>,
                            << "0", "6", "/", "0", "8", "/", "2", "0", "2", "5" >>,
                            << "0", "8", "/", "1", "3", "/", "2", "0", "2", "5" >>,
                            << "0", "6", "-", "0", "8", "-", "2", "0", "2", "5" >>,
                            << "2", "0", "2", "5", "-", "0", "8", "-", "0", "6" >>,
                            << "3", "1", "/", "2", "/", "2", "5" >>,
                            << "1", "/", "1", "/", "6", "9" >>,
                            << " ", "6", "/", "8", "/", "2", "5", " " >>,
                            << " ", "T", "B", "D", " " >>,
                            << "n", "o", "t", "-", "a", "-", "d", "a", "t", "e" >>,
                            << >> } },
                    MaxDateExams)
    /\ schools = {}
    /\ pc = "format"
    /\ school_name = ""
    /\ grade = << >>
    /\ grade_students = Empty
    /\ grade_exams = Empty
    /\ output_path = None
    /\ Fresh

\* [e.formatted_date() for e in exams]
FormatCall ==
    /\ pc = "format"
    /\ result' = [ n \in 1..Len(exams) |-> formatted_date(exams[n]) ]
    /\ pc' = "formatted"
    /\ UNCHANGED << inputs, envv, raised, log, loopv, stats, callv, pdfv,
                    fsys >>

SpecDate == InitDate /\ [][FormatCall]_vars

\* ------------------------------------------------------------------------
\* models/student.py: Student.grade_section
\* ------------------------------------------------------------------------

\* str.lower() on the characters of CharOrder.
Lower(s) ==
    [ n \in 1..Len(s) |->
        IF Code(s[n]) >= Code("A") /\ Code(s[n]) <= Code("Z")
        THEN CharOrder[Code(s[n]) + (Code("a") - Code("A"))]
        ELSE s[n] ]

\* grade_section that compares the trimmed section as it is written.
grade_section_CaseSensitive(s) ==
    IF /\ s.section # << >>
       /\ Strip(s.section) # << >>
       /\ Strip(s.section) \notin { << "n", "a", "n" >>,
                                    << "n", "o", "n", "e" >>, << >>, << "-" >> }
    THEN s.grade \o << " " >> \o s.section
    ELSE s.grade

\* if self.section and self.section.strip() and
\*    self.section.strip().lower() not in ['nan', 'none', '', '-']
grade_section(s) ==
    IF /\ s.section # << >>
       /\ Strip(s.section) # << >>
       /\ Lower(Strip(s.section)) \notin { << "n", "a", "n" >>,
                                           << "n", "o", "n", "e" >>, << >>,
                                           << "-" >> }
    THEN s.grade \o << " " >> \o s.section
    ELSE s.grade

\* grade_section of every student of a list whose sections are letters,
\* blank, the placeholders in either case, or text close to a placeholder.
InitSection ==
    /\ students \in
           SeqsUpTo({ Student(<< "E", "d" >>, ExcelCentral, g, sec, None) :
                        g \in { Grade09, KG },
                        sec \in { << >>, << " " >>, << "A" >>,
                                  << " ", "B", " " >>,
                                  << "n", "a", "n" >>, << "N", "a", "N" >>,
                                  << " ", "N", "A", "N", " " >>,
                                  << "N", "o", "n", "e" >>,
                                  << "n", "o", "n", "e" >>,
                                  << "-" >>, << " ", "-", " " >>,
                                  << "-", "-" >>, << "n", "a" >>,
                                  << "n", " ", "a", "n" >> } },
                    MaxSectionStudents)
    /\ exams = << >>
    /\ schools = {}
    /\ pc = "section"
    /\ school_name = ""
    /\ grade = << >>
    /\ grade_students = Empty
    /\ grade_exams = Empty
    /\ output_path = None
    /\ Fresh

\* [s.grade_section for s in students]
SectionCall ==
    /\ pc = "section"
    /\ result' = [ n \in 1..Len(students) |-> grade_section(students[n]) ]
    /\ pc' = "sectioned"
    /\ UNCHANGED << inputs, envv, raised, log, loopv, stats, callv, pdfv,
                    fsys >>

SpecSection == InitSection /\ [][SectionCall]_vars

\* ------------------------------------------------------------------------
\* services/pdf_generator.py: _draw_pass, the vertical layout of one pass
\* ------------------------------------------------------------------------

\* HeaderExamName that takes the name of the last exam of the list.
HeaderExamName_LastExam(exs) ==
    IF exs # << >> THEN exs[Len(exs)].exam_name ELSE TermI

\* exam_name in _draw_header, printed in the title of the pass:
\* exams[0].exam_name if exams else "Term I"
HeaderExamName(exs) == IF exs # << >> THEN exs[1].exam_name ELSE TermI

\* data in _draw_exam_schedule: the header row, then one row per exam of
\* the list in its order (the cells that the exam model carries).
ExamScheduleData(exs) ==
    << [ subject |-> "Subject", exam_date |-> "Exam Date" ] >> \o
    [ n \in 1..Len(exs) |->
        [ subject |-> exs[n].subject,
          exam_date |-> formatted_date(exs[n]) ] ]

\* config.py, in points.
PAGE_HEIGHT == 595
MARGIN == 20

\* A block of a pass: the Y-coordinates of its top and bottom edges and, for
\* a table, the heights of its rows from the top.
Block(name, top, bottom, heights) ==
    [ name |-> name, top |-> top, bottom |-> bottom, heights |-> heights ]

\* Table.wrapOn: the height of a row is the height of its tallest paragraph,
\* lines * leading, plus TOPPADDING and BOTTOMPADDING.
RowHeight(lines, leading, padding) == lines * leading + 2 * padding

RECURSIVE SumHeights(_)
SumHeights(hs) == IF hs = << >> THEN 0 ELSE Head(hs) + SumHeights(Tail(hs))

\* y_top = PAGE_HEIGHT - MARGIN + 10; _draw_header returns title_y - 20,
\* where title_y = (y_offset - 15) - 58.
DrawHeader ==
    /\ pc = "header"
    /\ LET y_top   == PAGE_HEIGHT - MARGIN + 10
           title_y == (y_top - 15) - 58
       IN  layout' = [ y_current |-> title_y - 20,
                       blocks |-> << Block("header", y_top, title_y - 20, << >>) >> ]
    /\ pc' = "student_info"
    /\ UNCHANGED << inputs, rows, run, prev, raised, result, log, loopv, stats,
                    callv, pdfv, fsys >>

\* _draw_student_info(student, ..., y_current - 8): a rectangle of
\* cell_height 45 below y_offset; returns y_offset - cell_height.
DrawStudentInfo ==
    /\ pc = "student_info"
    /\ LET y_offset == layout.y_current - 8
       IN  layout' = [ y_current |-> y_offset - 45,
                       blocks |-> Append(layout.blocks,
                                         Block("student_info", y_offset,
                                               y_offset - 45, << >>)) ]
    /\ pc' = "exam_schedule"
    /\ UNCHANGED << inputs, rows, run, prev, raised, result, log, loopv, stats,
                    callv, pdfv, fsys >>

\* _draw_exam_schedule that draws the table where it belongs but returns a
\* bottom computed from one-line rows instead of the measured heights.
DrawExamSchedule_AssumedHeight ==
    /\ pc = "exam_schedule"
    /\ \E lines \in [ 1..Len(grade_exams) -> 1..MaxLines ] :
           LET y_offset     == layout.y_current - 8
               heights      == << RowHeight(1, 12, 3) >> \o
                               [ n \in 1..Len(grade_exams) |->
                                   RowHeight(lines[n], 10, 3) ]
               table_height == RowHeight(1, 12, 3)
                               + Len(grade_exams) * RowHeight(1, 10, 3)
           IN  layout' = [ y_current |-> y_offset - table_height - 10,
                           blocks |->
                               Append(layout.blocks,
                                      Block("exam_schedule", y_offset - 10,
                                            y_offset - 10
                                            - SumHeights(heights),
                                            heights)) ]
    /\ pc' = "instructions"
    /\ UNCHANGED << inputs, rows, run, prev, raised, result, log, loopv, stats,
                    callv, pdfv, fsys >>

\* _draw_exam_schedule(exams, ..., y_current - 8): a header row (leading 12)
\* and one row per exam (leading 10, one or more lines), padding 3;
\* table_height = sum(table._rowHeights); the table is drawn with its lower
\* edge at y_offset - table_height - 10, which is also returned.
DrawExamSchedule ==
    /\ pc = "exam_schedule"
    /\ \E lines \in [ 1..Len(grade_exams) -> 1..MaxLines ] :
           LET y_offset     == layout.y_current - 8
               heights      == << RowHeight(1, 12, 3) >> \o
                               [ n \in 1..Len(grade_exams) |->
                                   RowHeight(lines[n], 10, 3) ]
               table_height == SumHeights(heights)
           IN  layout' = [ y_current |-> y_offset - table_height - 10,
                           blocks |->
                               Append(layout.blocks,
                                      Block("exam_schedule",
                                            y_offset - table_height - 10
                                            + SumHeights(heights),
                                            y_offset - table_height - 10,
                                            heights)) ]
    /\ pc' = "instructions"
    /\ UNCHANGED << inputs, rows, run, prev, raised, result, log, loopv, stats,
                    callv, pdfv, fsys >>

\* _draw_instructions(..., y_current - 8): a header row (leading 12,
\* padding 3) and one row holding the seven instructions (leading 10,
\* padding 8), each on one line or the longest wrapped onto a second.
DrawInstructions ==
    /\ pc = "instructions"
    /\ \E wrapped \in 0..1 :
           LET y_offset     == layout.y_current - 8
               heights      == << RowHeight(1, 12, 3),
                                  RowHeight(7 + wrapped, 10, 8) >>
               table_height == SumHeights(heights)
           IN  layout' = [ y_current |-> y_offset - table_height - 10,
                           blocks |->
                               Append(layout.blocks,
                                      Block("instructions",
                                            y_offset - table_height - 10
                                            + SumHeights(heights),
                                            y_offset - table_height - 10,
                                            heights)) ]
    /\ pc' = "footer"
    /\ UNCHANGED << inputs, rows, run, prev, raised, result, log, loopv, stats,
                    callv, pdfv, fsys >>

\* _draw_footer(school, ..., MARGIN + 50): a rectangle of cell_height 45
\* below y_offset; y_current is not read.
DrawFooter ==
    /\ pc = "footer"
    /\ layout' = [ layout EXCEPT
                     !.blocks = Append(@, Block("footer", MARGIN + 50,
                                                MARGIN + 50 - 45, << >>)) ]
    /\ pc' = "drawn"
    /\ UNCHANGED << inputs, rows, run, prev, raised, result, log, loopv, stats,
                    callv, pdfv, fsys >>

\* _draw_pass for one student and an exam list of any length up to the
\* bound.
InitLayout ==
    /\ students = << >>
    /\ exams = << >>
    /\ schools = {}
    /\ pc = "header"
    /\ school_name = ExcelCentral
    /\ grade = Grade09
    /\ grade_students = << Student(<< "E", "d" >>, ExcelCentral, Grade09,
                                   << "A" >>, None) >>
    /\ grade_exams \in
           { [ n \in 1..k |-> Exam(Grade09, "Maths", Date6Aug, ExcelCentral,
                                   TermI) ] : k \in 0..MaxLayoutExams }
    /\ output_path = None
    /\ Fresh

SpecLayout ==
    InitLayout /\ [][DrawHeader \/ DrawStudentInfo \/ DrawExamSchedule
                     \/ DrawInstructions \/ DrawFooter]_vars

\* A run of generate_all_passes on students whose grade label is either the
\* numbered grade or already the name that the school prints for it.
InitCollide ==
    /\ students \in
           SeqsUpTo({ Student(<< "E", "d" >>, sc, g, << "A" >>, None) :
                        sc \in { ExcelCentral, ExcelGlobal },
                        g \in { Grade10, IGCSE } },
                    MaxRunStudents)
    /\ exams \in
           SeqsUpTo({ Exam(IGCSE, "Maths", date, sc, TermI) :
                        date \in { Date6Aug, DateTBD },
                        sc \in { ExcelCentral, ExcelGlobal } },
                    MaxRunExams)
    /\ schools \in { { ExcelCentral, ExcelGlobal }, { ExcelGlobal } }
    /\ pc = "idle"
    /\ school_name = ""
    /\ grade = << >>
    /\ grade_students = Empty
    /\ grade_exams = Empty
    /\ output_path = None
    /\ Fresh

SpecCollide == InitCollide /\ [][Next]_vars

\* A second call of generate_all_passes on the same PassGenerator with the
\* same inputs: the locals are new, self.student_counts, self.grade_counts
\* and self.grade_section_stats are those the first call left.
CallAgain ==
    /\ pc \in { "returned", "raised" }
    /\ run = 1
    /\ run' = 2
    /\ prev' = [ pc |-> pc, result |-> result, generated |-> generated_files,
                 log |-> log, exams |-> exams, files |-> files,
                 dirs |-> dirs, student_counts |-> student_counts,
                 grade_counts |-> grade_counts,
                 grade_section_stats |-> grade_section_stats ]
    /\ pc' = "idle"
    /\ raised' = "none"
    /\ result' = None
    /\ log' = << >>
    /\ grouped' = Empty
    /\ si' = 0
    /\ sorted_grades' = Empty
    /\ gi' = 0
    /\ school_name' = ""
    /\ grade' = << >>
    /\ school_student_count' = 0
    /\ generated_files' = Empty
    /\ grade_students' = Empty
    /\ grade_exams' = Empty
    /\ output_path' = None
    /\ canvas' = NoCanvas
    /\ i' = 0
    /\ success' = FALSE
    /\ UNCHANGED << inputs, rows, layout, stats, fsys >>

SpecReuse == InitTwice /\ [][Next \/ CallAgain]_vars

\* A run of generate_all_passes on an exam table in which the exams of one
\* grade carry different series names.
InitSeries ==
    /\ students \in
           SeqsUpTo({ Student(<< "E", "d" >>, ExcelCentral, g, << "A" >>, None) :
                        g \in { Grade09, Grade10 } },
                    MaxSeriesStudents)
    /\ exams \in
           SeqsUpTo({ Exam(Grade09, "Maths", Date6Aug, ExcelCentral, TermI),
                      Exam(Grade09, "Physics", Date9Aug, ExcelCentral,
                           << "M", "i", "d" >>),
                      Exam(Grade09, "Physics", Date6Aug, ExcelCentral,
                           << "M", "i", "d" >>),
                      Exam(Grade09, "Art", DateTBD, ExcelCentral,
                           << "U", "n", "i", "t", " ", "1" >>) },
                    MaxSeriesExams)
    /\ schools \in { { ExcelCentral }, {} }
    /\ pc = "idle"
    /\ school_name = ""
    /\ grade = << >>
    /\ grade_students = Empty
    /\ grade_exams = Empty
    /\ output_path = None
    /\ Fresh

SpecSeries == InitSeries /\ [][Next]_vars

\* ------------------------------------------------------------------------
\* The exam schedule of one grade: filtered and sorted by parse_date, then
\* printed with Exam.formatted_date
\* ------------------------------------------------------------------------

\* The exams of one grade of one school, their dates written in the
\* accepted formats, with blanks around, or in none of them.
InitSchedule ==
    /\ students = << >>
    /\ exams \in
           SeqsUpTo({ Exam(Grade09, "Maths", date, ExcelCentral, TermI) :
                        date \in
                          { Date6Aug, DateTBD,
                            << "1", "3", "/", "8", "/", "2", "5" >>,
                            << "8", "/", "1", "3", "/", "2", "5" >>,
                            << "0", "6", "/", "0", "8", "/", "2", "0", "2", "5" >>,
                            << "1", "0", "-", "0", "8", "-", "2", "0", "2", "5" >>,
                            << "2", "0", "2", "5", "-", "0", "8", "-", "0", "9" >>,
                            << "0", "8", "/", "1", "3", "/", "2", "0", "2", "4" >>,
                            << "3", "1", "/", "2", "/", "2", "5" >>,
                            << " ", "9", "/", "8", "/", "2", "5", " " >>,
                            << >> } },
                    MaxScheduleExams)
    /\ schools = {}
    /\ pc = "filter"
    /\ school_name = ExcelCentral
    /\ grade = Grade09
    /\ grade_students = Empty
    /\ grade_exams = Empty
    /\ output_path = None
    /\ Fresh

\* _draw_exam_schedule(exams, ...) on the list the filter returned.
PrintSchedule ==
    /\ pc = "filtered"
    /\ raised = "none"
    /\ result' = ExamScheduleData(grade_exams)
    /\ pc' = "printed"
    /\ UNCHANGED << inputs, envv, raised, log, loopv, stats, callv, pdfv,
                    fsys >>

SpecSchedule == InitSchedule /\ [][FilterCall \/ PrintSchedule]_vars

\* ------------------------------------------------------------------------
\* Properties
\* ------------------------------------------------------------------------

Range(seq) == { seq[n] : n \in 1..Len(seq) }

Occurrences(seq, x) == Cardinality({ n \in 1..Len(seq) : seq[n] = x })

\* An exam date that matches none of the accepted formats.
Unparseable(e) == parse_date(e.exam_date) = None

\* C1: an exam whose date string matches none of the accepted formats never
\* aborts generation: whatever the exam set, no exception leaves the filter
\* or generate_all_passes.
C1_UnparseableDateNeverAborts ==
    (\E n \in 1..Len(exams) : Unparseable(exams[n]))
        => (raised = "none" /\ pc # "raised")

\* (section, name) of a comes strictly before that of b, by code point.
SectionNameBefore(a, b) ==
    \/ StrLess(a.section, b.section)
    \/ a.section = b.section /\ StrLess(a.name, b.name)

SameSectionName(a, b) == a.section = b.section /\ a.name = b.name

\* C2: the grouping is a school -> grade -> list mapping in which every input
\* student appears exactly once, in the list of its own school and grade;
\* each list ascends by (section, name), case-sensitively, and students with
\* equal (section, name) keep their input order.
C2_GroupingPreservesAndSorts ==
    pc = "grouped" =>
        /\ \A a, b \in 1..Len(grouped) : grouped[a].k = grouped[b].k => a = b
        /\ \A x \in Range(students) :
               /\ DictHas(grouped, x.school)
               /\ DictHas(DictGet(grouped, x.school), x.grade)
        /\ \A a \in 1..Len(grouped) :
               LET items == grouped[a].v
               IN  /\ \A p, q \in 1..Len(items) : items[p].k = items[q].k => p = q
                   /\ \A p \in 1..Len(items) :
                          LET list == items[p].v
                              mine(x) == x.school = grouped[a].k
                                         /\ x.grade = items[p].k
                          IN  /\ \A x \in Range(list) : mine(x)
                              /\ \A x \in Range(students) :
                                     mine(x) => Occurrences(list, x)
                                                = Occurrences(students, x)
                              /\ \A m, n \in 1..Len(list) :
                                     m < n => ~SectionNameBefore(list[n], list[m])
                              /\ \A x \in Range(list) :
                                     SelectSeq(list,
                                               LAMBDA y : SameSectionName(x, y))
                                     = SelectSeq(students,
                                                 LAMBDA y : mine(y)
                                                     /\ SameSectionName(x, y))

\* A roster of three that the sort reordered and that holds two different
\* students with equal (section, name).
C2_Witness ==
    /\ pc = "grouped"
    /\ \E a \in 1..Len(grouped) : \E p \in 1..Len(grouped[a].v) :
           LET list == grouped[a].v[p].v
           IN  /\ Len(list) = 3
               /\ list # students
               /\ \E m \in 1..2 : /\ list[m] # list[m + 1]
                                  /\ SameSectionName(list[m], list[m + 1])

\* C3: for every exam list, grade and school the filter returns exactly the
\* exams of the mapped grade label and the school, ascending by parsed date,
\* the exams with unparseable dates ordered among themselves by raw string.
C3_FilterReturnsSortedMatches ==
    pc = "filtered" =>
        LET want == IF grade = Grade10 THEN IGCSE ELSE grade
            matches == SelectSeq(exams, LAMBDA e : e.grade = want
                                                   /\ e.school = school_name)
        IN  /\ raised = "none"
            /\ Len(grade_exams) = Len(matches)
            /\ \A e \in Range(matches) :
                   Occurrences(grade_exams, e) = Occurrences(matches, e)
            /\ \A m, n \in 1..Len(grade_exams) :
                   m < n =>
                       /\ (~Unparseable(grade_exams[m])
                           /\ ~Unparseable(grade_exams[n]))
                          => ~DateLess(parse_date(grade_exams[n].exam_date),
                                       parse_date(grade_exams[m].exam_date))
                       /\ (Unparseable(grade_exams[m])
                           /\ Unparseable(grade_exams[n]))
                          => ~StrLess(grade_exams[n].exam_date,
                                      grade_exams[m].exam_date)

\* The pages generate_grade_passes is to produce for a roster: page k holds
\* the left pass of student 2k-1, the right pass of student 2k if there is
\* one, and the divider.
ExpectedPages(roster, exs) ==
    [ k \in 1..((Len(roster) + 1) \div 2) |->
        << DrawPass(roster[2 * k - 1], exs, "left") >> \o
        (IF 2 * k <= Len(roster)
         THEN << DrawPass(roster[2 * k], exs, "right") >> ELSE << >>) \o
        << DrawDivider >> ]

\* The passes drawn for student x anywhere in a document.
PassesOf(pages, x) ==
    { << k, m >> \in UNION { { << k, m >> : m \in 1..Len(pages[k]) } :
                             k \in 1..Len(pages) } :
        pages[k][m].op = "pass" /\ pages[k][m].student = x }

\* C4: for a roster of n >= 1 students a successful generate_grade_passes
\* leaves a document of exactly ceil(n/2) pages and no blank page; page k
\* holds the left pass of the student at index 2k-2, the right pass of the
\* student at index 2k-1 unless n is odd and the page is the last, and the
\* centre divider; every student is drawn as often as the roster holds it.
C4_TwoPassesPerPage ==
    (pc = "generated" /\ success) =>
        /\ output_path \in DOMAIN files
        /\ files[output_path].complete
        /\ LET pages == files[output_path].pages
               n     == Len(grade_students)
           IN  /\ Len(pages) = (n + 1) \div 2
               /\ pages = ExpectedPages(grade_students, grade_exams)
               /\ \A k \in 1..Len(pages) : pages[k] # << >>
               /\ \A x \in Range(grade_students) :
                      Cardinality(PassesOf(pages, x))
                      = Occurrences(grade_students, x)

\* A saved document of three students: two pages, the second with a left
\* pass and the divider only.
C4_Witness ==
    /\ pc = "generated"
    /\ success
    /\ Len(grade_students) = 3
    /\ output_path \in DOMAIN files
    /\ Len(files[output_path].pages) = 2
    /\ Len(files[output_path].pages[2]) = 2

\* generate_all_passes went through both loops and returned.
ReturnedRun == pc = "returned" /\ students # << >> /\ exams # << >>

\* The exams generate_all_passes obtains for a grade of a school.
ExamsFor(school, g) ==
    filter_exams_for_grade_and_school(exams, g, school).val

\* The output path of a grade that has exams.
PathFor(school, g) ==
    get_output_path(school, g, ExamsFor(school, g)[1].exam_name)

\* The number of students in the (grade, roster) items that satisfy P.
StudentsIn(items, P(_)) ==
    LET acc[n \in 0..Len(items)] ==
            IF n = 0 THEN 0
            ELSE acc[n - 1] + (IF P(items[n]) THEN Len(items[n].v) ELSE 0)
    IN  acc[Len(items)]

\* Every exam name a path of the run can carry.
ExamNames == { e.exam_name : e \in Range(exams) } \cup { TermI }

\* C5: when generate_all_passes returns, a grade of a known school whose
\* filtered exam list is empty has no PDF and no path in the result under any
\* exam name; its students are not in the school's with-passes count, which
\* counts the grades with exams only, but they are in the school's total
\* count and in the grade's total_by_section counts.
C5_GradeWithoutExamsSkipped ==
    ReturnedRun =>
        \A a \in 1..Len(grouped) :
            grouped[a].k \in schools =>
                LET school == grouped[a].k
                    items  == grouped[a].v
                    skipped(it) == ExamsFor(school, it.k) = << >>
                IN  /\ student_counts[school]
                       = StudentsIn(items, LAMBDA it : ~skipped(it))
                    /\ grade_counts[school]
                       = StudentsIn(items, LAMBDA it : TRUE)
                    /\ \A p \in 1..Len(items) :
                           skipped(items[p]) =>
                               /\ \A en \in ExamNames :
                                      LET path == get_output_path(
                                                      school, items[p].k, en)
                                      IN  /\ path \notin DOMAIN files
                                          /\ path \notin
                                             Range(DictGet(result, school))
                               /\ grade_section_stats[school][items[p].k]
                                  = [ with_passes |-> Empty,
                                      total_with_passes |-> 0,
                                      total_by_section |->
                                          SectionCounts(items[p].v) ]

\* A returned run in which a known school has a grade without exams next to
\* a grade whose passes were counted.
C5_Witness ==
    /\ ReturnedRun
    /\ \E a \in 1..Len(grouped) :
           /\ grouped[a].k \in schools
           /\ \E p \in 1..Len(grouped[a].v) :
                  ExamsFor(grouped[a].k, grouped[a].v[p].k) = << >>
           /\ student_counts[grouped[a].k] > 0
           /\ student_counts[grouped[a].k] < grade_counts[grouped[a].k]

\* The paths appended to generated_files so far.
GeneratedPaths ==
    UNION { Range(generated_files[a].v) : a \in 1..Len(generated_files) }

PathCount ==
    LET acc[n \in 0..Len(generated_files)] ==
            IF n = 0 THEN 0 ELSE acc[n - 1] + Len(generated_files[n].v)
    IN  acc[Len(generated_files)]

ErrorsLogged == Occurrences(log, "error: Error generating PDF")

\* The outcome of every (school, grade) pair of a known school that has
\* exams: its path, its roster size, the recorded with-passes total.
PairsWithExams ==
    UNION { LET school == grouped[a].k
            IN  UNION { LET it == grouped[a].v[p]
                            ex == ExamsFor(school, it.k)
                        IN  IF ex = << >> THEN {}
                            ELSE { [ school |-> school, grade |-> it.k,
                                     size |-> Len(it.v),
                                     path |-> get_output_path(
                                                  school, it.k,
                                                  ex[1].exam_name) ] } :
                        p \in 1..Len(grouped[a].v) } :
            a \in { n \in 1..Len(grouped) : grouped[n].k \in schools } }

\* C6: a failure of generate_grade_passes on opening or saving raises
\* nothing and leaves the flag False; the path of the failed grade is not
\* among the generated paths, which are all complete documents; and the run
\* goes on: when it returns, every (school, grade) pair with exams was
\* handed to the generator and ended either in a logged failure or in a path.
C6_FailureIsLocal ==
    /\ (pc = "generated" /\ ~success) =>
           /\ raised = "none"
           /\ output_path \notin GeneratedPaths
    /\ \A path \in GeneratedPaths :
           path \in DOMAIN files /\ files[path].complete
    /\ ReturnedRun =>
           LET pairs == PairsWithExams
           IN  /\ ErrorsLogged + PathCount = Cardinality(pairs)
               /\ \A pr \in pairs :
                      /\ grade_section_stats[pr.school][pr.grade]
                             .total_with_passes = pr.size
                      /\ pr.path \in GeneratedPaths
                         <=> /\ pr.path \in DOMAIN files
                             /\ files[pr.path].complete

\* A grade was generated after the generation of an earlier one had failed.
C6_Witness ==
    /\ pc = "generated"
    /\ success
    /\ ErrorsLogged >= 1
    /\ output_path \in DOMAIN files

\* C7: when generate_all_passes returns, the with-passes count of every
\* known school is the number of students in exactly those grades whose
\* path is in the returned result.
C7_CountsOnlyGeneratedGrades ==
    ReturnedRun =>
        \A a \in 1..Len(grouped) :
            grouped[a].k \in schools =>
                LET school == grouped[a].k
                    got(it) == /\ ExamsFor(school, it.k) # << >>
                               /\ PathFor(school, it.k)
                                  \in Range(DictGet(result, school))
                IN  student_counts[school] = StudentsIn(grouped[a].v, got)

\* C8: a school of the student data that the school table does not hold has
\* no directory, no PDF, no key in generated_files nor in the returned
\* result; every school the table holds has a key in the result and each of
\* its grades with exams was handed to the generator.
C8_UnknownSchoolSkipped ==
    \A a \in 1..Len(grouped) :
        LET school == grouped[a].k
        IN  /\ school \notin schools =>
                   /\ school \notin dirs
                   /\ \A path \in DOMAIN files : path.dir # school
                   /\ ~DictHas(generated_files, school)
                   /\ pc = "returned" => ~DictHas(result, school)
            /\ (school \in schools /\ pc = "returned") =>
                   /\ DictHas(result, school)
                   /\ \A p \in 1..Len(grouped[a].v) :
                          LET it == grouped[a].v[p]
                          IN  ExamsFor(school, it.k) # << >> =>
                                  grade_section_stats[school][it.k]
                                      .total_with_passes = Len(it.v)

\* A returned run whose first school is unknown and whose later school got
\* a PDF.
C8_Witness ==
    /\ ReturnedRun
    /\ Len(grouped) = 2
    /\ grouped[1].k \notin schools
    /\ DictHas(result, grouped[2].k)
    /\ DictGet(result, grouped[2].k) # << >>

\* C9: with no students or no exams the run does nothing but log one error
\* and return the empty result: no grouping, no school, no directory, no
\* PDF, no statistic.
C9_EmptyInputStops ==
    (students = << >> \/ exams = << >>) =>
        /\ pc \in { "idle", "returned" }
        /\ raised = "none"
        /\ grouped = Empty
        /\ generated_files = Empty
        /\ dirs = {}
        /\ files = Empty
        /\ student_counts = Empty
        /\ grade_counts = Empty
        /\ grade_section_stats = Empty
        /\ pc = "returned" =>
               /\ result = Empty
               /\ Len(log) = 1
               /\ log[1] \in { "error: No students found",
                               "error: No exams found" }

\* A run with students and no exams has returned.
C9_Witness ==
    /\ pc = "returned"
    /\ students # << >>
    /\ exams = << >>
    /\ result = Empty

\* The last word of the grade label is an integer literal.
HasGradeNumber(g) ==
    LET words == SplitWords(g)
    IN  words # << >> /\ IsIntToken(words[Len(words)])

\* C10: the grades of a school are processed in ascending order of the
\* number in the grade label, and the labels without a number come after
\* every label with one.
C10_NumberlessGradesLast ==
    \A m, n \in 1..Len(sorted_grades) :
        m < n =>
            LET g == sorted_grades[m].k
                h == sorted_grades[n].k
            IN  /\ ~(~HasGradeNumber(g) /\ HasGradeNumber(h))
                /\ (HasGradeNumber(g) /\ HasGradeNumber(h)) =>
                       _extract_grade_number(g) <= _extract_grade_number(h)

\* C11: for every school, grade and exam series name get_output_path
\* returns <school>/<abbrev>_<display grade>_Passes_<exam series>.pdf under
\* the output root, blanks of the display grade and of the series replaced
\* by underscores, abbrev being ECS, EGS, EPS for the three known schools
\* and XXX for any other; nothing is raised, the value is the same whatever
\* directories exist, and the school directory exists afterwards.
C11_OutputPathShape ==
    pc = "pathed" =>
        LET abbrev == CASE school_name = "Excel Central School"
                               -> << "E", "C", "S" >>
                        [] school_name = "Excel Global School"
                               -> << "E", "G", "S" >>
                        [] school_name = "Excel Pathway School"
                               -> << "E", "P", "S" >>
                        [] OTHER -> << "X", "X", "X" >>
            shown  == get_display_grade_for_school(grade, school_name)
            series == grade_exams[1].exam_name
            f      == output_path.file
            \* part is text with "_" wherever text has a blank
            replaced(part, text) ==
                /\ Len(part) = Len(text)
                /\ \A n \in 1..Len(text) :
                       part[n] = (IF text[n] = " " THEN "_" ELSE text[n])
            g0     == Len(abbrev) + 1
            p0     == g0 + Len(shown)
            s0     == p0 + 8
            e0     == s0 + Len(series)
        IN  /\ raised = "none"
            /\ output_path.dir = school_name
            /\ school_name \in dirs
            /\ Len(f) = e0 + 4
            /\ SubSeq(f, 1, g0) = abbrev \o << "_" >>
            /\ replaced(SubSeq(f, g0 + 1, p0), shown)
            /\ SubSeq(f, p0 + 1, s0)
               = << "_", "P", "a", "s", "s", "e", "s", "_" >>
            /\ replaced(SubSeq(f, s0 + 1, e0), series)
            /\ SubSeq(f, e0 + 1, e0 + 4) = << ".", "p", "d", "f" >>

\* The path of a school outside the table, for a series name of three words.
C11_Witness ==
    /\ pc = "pathed"
    /\ school_name = "Sunrise Academy"
    /\ output_path.dir = "Sunrise Academy"
    /\ output_path.file
       = << "X", "X", "X", "_", "G", "r", "a", "d", "e", "_", "0", "9", "_",
            "P", "a", "s", "s", "e", "s", "_",
            "M", "i", "d", "_", "T", "e", "r", "m", "_", "2",
            ".", "p", "d", "f" >>

\* The display grade of the state's grade and school as the table of the
\* specification gives it.
DisplayGradeTable ==
    IF school_name = "Excel Global School"
    THEN CASE grade = << "G", "r", "a", "d", "e", " ", "0", "9" >>
                  -> << "I", "G", "C", "S", "E", " ", "J", "r" >>
           [] grade = << "G", "r", "a", "d", "e", " ", "1", "0" >>
                  -> << "I", "G", "C", "S", "E" >>
           [] grade = << "G", "r", "a", "d", "e", " ", "1", "1" >>
                  -> << "A", "S", " ", "L", "e", "v", "e", "l" >>
           [] grade = << "G", "r", "a", "d", "e", " ", "1", "2" >>
                  -> << "A", " ", "L", "e", "v", "e", "l" >>
           [] OTHER -> grade
    ELSE grade

\* C12: get_display_grade_for_school maps Grade 09..12 to IGCSE Jr, IGCSE,
\* AS Level, A Level only for the school named exactly Excel Global School
\* and returns the grade unchanged for every other school and label; the
\* file name carries that display grade.
C12_DisplayGradeOnlyForGlobal ==
    /\ get_display_grade_for_school(grade, school_name) = DisplayGradeTable
    /\ pc = "pathed" =>
           LET shown == Underscored(DisplayGradeTable)
           IN  SubSeq(output_path.file, 5, 4 + Len(shown)) = shown
               /\ output_path.file[5 + Len(shown)] = "_"

\* Grade 09 of Excel Global School is filed as IGCSE Jr.
C12_Witness ==
    /\ pc = "pathed"
    /\ school_name = ExcelGlobal
    /\ grade = Grade09
    /\ SubSeq(output_path.file, 1, 13)
       = << "E", "G", "S", "_", "I", "G", "C", "S", "E", "_", "J", "r", "_" >>

\* The exam label of the state's grade as the table of the specification
\* gives it.
ExamLabelTable ==
    CASE grade = << "G", "r", "a", "d", "e", " ", "1", "0" >>
             -> << "I", "G", "C", "S", "E" >>
      [] grade = << "G", "r", "a", "d", "e", " ", "1", "1" >>
             -> << "A", "S", " ", "L", "E", "V", "E", "L" >>
      [] grade = << "G", "r", "a", "d", "e", " ", "1", "2" >>
             -> << "A", " ", "L", "E", "V", "E", "L" >>
      [] OTHER -> grade

\* C13: the exam-filter mapping sends Grade 10, 11, 12 to IGCSE, AS LEVEL,
\* A LEVEL and every other label (Grade 09, Grade 13) to itself; the filter
\* applies it for every school alike: it returns exactly the exams of the
\* school that carry the mapped label.
C13_ExamLabelMapping ==
    /\ _map_student_grade_to_exam_grade(grade) = ExamLabelTable
    /\ pc = "filtered" =>
           /\ raised = "none"
           /\ grade_exams
              = SelectSeq(exams, LAMBDA e : /\ e.grade = ExamLabelTable
                                            /\ e.school = school_name)

\* A Grade 12 roster of a school other than Excel Global School got the
\* A LEVEL exams, and the exams labelled Grade 10 go to no Grade 10 roster.
C13_Witness ==
    /\ pc = "filtered"
    /\ school_name = ExcelCentral
    /\ grade = Grade12
    /\ grade_exams # << >>
    /\ \A n \in 1..Len(grade_exams) : grade_exams[n].grade = ALEVEL

\* The second run has ended.
RerunEnded == run = 2 /\ pc \in { "returned", "raised" }

\* C14: a second run on identical inputs, started on the output directory
\* the first run left, neither run meeting an I/O failure of the generator,
\* ends as the first did, returns the same paths and leaves the same files
\* with the same content and the same directories.
C14_RerunLeavesSameFiles ==
    (/\ RerunEnded
     /\ exams = prev.exams
     /\ ErrorsLogged = 0
     /\ Occurrences(prev.log, "error: Error generating PDF") = 0) =>
        /\ pc = prev.pc
        /\ generated_files = prev.generated
        /\ pc = "returned" => result = prev.result
        /\ files = prev.files
        /\ dirs = prev.dirs

\* Both runs generated a PDF at the same path.
C14_Witness ==
    /\ RerunEnded
    /\ pc = "returned"
    /\ exams = prev.exams
    /\ ErrorsLogged = 0
    /\ Occurrences(prev.log, "error: Error generating PDF") = 0
    /\ GeneratedPaths # {}
    /\ GeneratedPaths \subseteq DOMAIN prev.files

\* C15: when generate_all_passes has gone through the schools and returned,
\* every school directory under the output root holds a file: a directory
\* left empty because every generation for the school failed is removed;
\* and no directory that holds a file is ever missing.
C15_NoEmptyDirectoryLeft ==
    /\ \A path \in DOMAIN files : path.dir \in dirs
    /\ ReturnedRun =>
           \A d \in dirs : \E path \in DOMAIN files : path.dir = d

\* A returned run whose only generation failed and left no file: the
\* directory get_output_path had created is gone.
C15_Witness ==
    /\ ReturnedRun
    /\ ErrorsLogged >= 1
    /\ PairsWithExams # {}
    /\ dirs = {}

\* C16: a rerun leaves every file of the previous run in place, in its
\* directory, and with its content unless the path is one the rerun
\* generates for a (school, grade) pair that has exams now.
C16_StaleFilesKept ==
    run = 2 =>
        \A path \in DOMAIN prev.files :
            /\ path \in DOMAIN files
            /\ path.dir \in dirs
            /\ \/ files[path] = prev.files[path]
               \/ path \in { pr.path : pr \in PairsWithExams }

\* The rerun regenerated the PDF of one grade and returned; the PDF of a
\* grade that lost its exams is still there.
C16_Witness ==
    /\ RerunEnded
    /\ ReturnedRun
    /\ GeneratedPaths # {}
    /\ \E path \in DOMAIN prev.files :
           /\ prev.files[path].complete
           /\ path \notin { pr.path : pr \in PairsWithExams }
           /\ path \in DOMAIN files

\* A required cell holds text that is not blank; a name counts as empty
\* too when it has nothing but periods, which the loader removes.
FieldPresent(cell) == cell # NaN /\ Strip(cell.s) # << >>

RowValid(r) ==
    /\ FieldPresent(r.name)
    /\ \E n \in 1..Len(r.name.s) : r.name.s[n] \notin { " ", "." }
    /\ FieldPresent(r.school)
    /\ FieldPresent(r.grade)

\* C17: load_students keeps a record exactly when its name, school and
\* grade are all present: a row in which one of the three is missing or
\* empty is dropped, the other rows are kept in order, also with a missing
\* section or enrollment code, the missing code becoming None.
C17_RequiredFieldsOrDropped ==
    pc = "loaded" =>
        LET valid == SelectSeq(rows, RowValid)
        IN  /\ Len(students) = Len(valid)
            /\ \A k \in 1..Len(valid) :
                   /\ students[k].school = Strip(valid[k].school.s)
                   /\ students[k].grade = Strip(valid[k].grade.s)
                   /\ valid[k].code = NaN =>
                          students[k].enrollment_code = None

C19_GradeSection ==
    pc = "sectioned" =>
        /\ Len(result) = Len(students)
        /\ \A n \in 1..Len(students) :
               LET s    == students[n]
                   norm == Lower(Strip(s.section))
               IN  /\ result[n]
                      = IF norm \in { << >>, << "n", "a", "n" >>,
                                      << "n", "o", "n", "e" >>, << "-" >> }
                        THEN s.grade
                        ELSE s.grade \o << " " >> \o s.section
                   /\ s.section \in { << " ", "N", "A", "N", " " >>,
                                      << "N", "o", "n", "e" >>,
                                      << " ", "-", " " >>, << " " >> }
                          => result[n] = s.grade
                   /\ s.section = << " ", "B", " " >>
                          => result[n] = s.grade \o << " ", " ", "B", " " >>
                   /\ s.section = << "-", "-" >>
                          => result[n] = s.grade \o << " ", "-", "-" >>

\* One list holds a student with a placeholder section in capitals, whose
\* label is the grade alone, and one with a real section.
C19_Witness ==
    /\ pc = "sectioned"
    /\ Len(students) = 2
    /\ students[1].section = << "N", "a", "N" >>
    /\ result[1] = Grade09
    /\ students[2].section = << "A" >>
    /\ result[2] = KG \o << " ", "A" >>

\* The marks of an open or saved document, page after page.
MarksOf(cv) ==
    LET all == cv.pages \o << cv.page >>
        flat[k \in 0..Len(all)] ==
            IF k = 0 THEN << >> ELSE flat[k - 1] \o all[k]
    IN  flat[Len(all)]

\* C20: generation is sequential. A document is open only while its own
\* (school, grade) pair is being drawn, it is the document of that pair's
\* path, every mark on it is a pass of the pair's roster with the pair's
\* exams or a divider, drawn in roster order, and it is closed (saved or
\* abandoned) before the loop goes on to the next pair; at no other point
\* of a run is a document open.
C20_SequentialGeneration ==
    /\ pc # "draw" => ~canvas.open
    /\ pc = "draw" =>
           /\ canvas.open
           /\ canvas.path = output_path
           /\ output_path = get_output_path(school_name, grade,
                                          grade_exams[1].exam_name)
           /\ \A n \in 1..Len(grade_students) :
                  /\ grade_students[n].school = school_name
                  /\ grade_students[n].grade = grade
           /\ LET marks  == MarksOf(canvas)
                  passes == SelectSeq(marks, LAMBDA m : m.op = "pass")
                  drawn  == IF i < Len(grade_students) THEN i
                            ELSE Len(grade_students)
              IN  /\ Len(passes) = drawn
                  /\ \A n \in 1..drawn :
                         /\ passes[n].student = grade_students[n]
                         /\ passes[n].exams = grade_exams
                  /\ \A n \in 1..Len(marks) :
                         marks[n].op \in { "pass", "divider" }

\* The document of a second pair is open and carries a pass while the
\* document of the first pair already lies saved under another path.
C20_Witness ==
    /\ pc = "draw"
    /\ canvas.open
    /\ canvas.page # << >>
    /\ \E p \in DOMAIN files : p # canvas.path /\ files[p].complete

\* C21: the header, student-identity, exam-schedule and instructions blocks
\* of a pass are stacked without overlap. The Y-coordinate a block returns
\* is its real bottom edge, the next block starts at or below it, and the
\* exam schedule returns its top minus the sum of the measured heights of
\* its header row and one row per exam; so the instructions start below the
\* last exam row, for every number of exams and every row height.
C21_BlocksStackedWithoutOverlap ==
    pc \in { "student_info", "exam_schedule", "instructions", "footer",
             "drawn" } =>
        LET b == layout.blocks
            n == IF Len(b) < 4 THEN Len(b) ELSE 4
        IN  /\ n >= 1
            /\ layout.y_current = b[n].bottom
            /\ \A k \in 1..n : b[k].bottom <= b[k].top
            /\ \A k \in 2..n : b[k].top <= b[k - 1].bottom
            /\ n >= 3 =>
                   /\ b[3].name = "exam_schedule"
                   /\ Len(b[3].heights) = 1 + Len(grade_exams)
                   /\ \A r \in 1..Len(b[3].heights) : b[3].heights[r] > 0
                   /\ b[3].bottom = b[3].top - SumHeights(b[3].heights)
            /\ n >= 4 =>
                   /\ b[4].name = "instructions"
                   /\ b[4].top < b[3].bottom

\* A pass with three exams, one of them on a taller row, has been laid out
\* and its instructions start below the schedule.
C21_Witness ==
    /\ pc = "drawn"
    /\ Len(grade_exams) = 3
    /\ Len(layout.blocks) = 5
    /\ layout.blocks[3].heights[2] # layout.blocks[3].heights[3]
    /\ layout.blocks[4].top < layout.blocks[3].bottom

\* C23: for any number of exam rows and any row heights the instructions
\* block of a pass ends at or above the top edge of the footer strip, which
\* lies at MARGIN + 50 whatever the blocks above it measure.
C23_InstructionsAboveFooter ==
    pc = "drawn" =>
        /\ layout.blocks[5].name = "footer"
        /\ layout.blocks[5].top = MARGIN + 50
        /\ layout.blocks[4].bottom >= layout.blocks[5].top

\* C22: every pass of a document carries the same exam schedule: the header
\* row, then exactly one row per exam of the list handed to
\* generate_grade_passes, in that list's order, on the left and on the
\* right pass and on every page, while the document is drawn and in the
\* saved file.
C22_SameScheduleOnEveryPass ==
    LET drawn == MarksOf(canvas)
        saved == IF output_path \in DOMAIN files
                 THEN MarksOf([ pages |-> files[output_path].pages,
                                page |-> << >> ])
                 ELSE << >>
        marks == drawn \o saved
    IN  \A k \in 1..Len(marks) :
            marks[k].op = "pass" =>
                LET data == ExamScheduleData(marks[k].exams)
                IN  /\ Len(data) = 1 + Len(grade_exams)
                    /\ data[1].subject = "Subject"
                    /\ \A n \in 1..Len(grade_exams) :
                           /\ data[n + 1].subject = grade_exams[n].subject
                           /\ data[n + 1].exam_date
                              = formatted_date(grade_exams[n])

\* A saved document of two pages and two exams: the right pass of the first
\* page and the left pass of the second both carry three rows.
C22_Witness ==
    /\ pc = "generated"
    /\ success
    /\ Len(grade_exams) = 2
    /\ output_path \in DOMAIN files
    /\ Len(files[output_path].pages) = 2
    /\ files[output_path].pages[1][2].side = "right"
    /\ Len(ExamScheduleData(files[output_path].pages[1][2].exams)) = 3
    /\ files[output_path].pages[2][1].side = "left"
    /\ Len(ExamScheduleData(files[output_path].pages[2][1].exams)) = 3

\* C24: within one run two distinct (school, grade) groups that both have
\* matching exams never have the same output path.
C24_DistinctPairsDistinctPaths ==
    pc = "returned" =>
        \A p, q \in PairsWithExams :
            p.path = q.path => p.school = q.school /\ p.grade = q.grade

\* C25: after a second call of generate_all_passes on the same
\* PassGenerator with the same inputs the statistics are those after the
\* first call: the per-school totals, the with-passes counts and, for every
\* school, grade and section, total_by_section.
C25_StatisticsIdempotent ==
    (run = 2 /\ pc = "returned" /\ prev.pc = "returned") =>
        /\ grade_counts = prev.grade_counts
        /\ student_counts = prev.student_counts
        /\ grade_section_stats = prev.grade_section_stats

\* The sum of the values of a dict of counts.
RECURSIVE SumOfCounts(_)
SumOfCounts(f) ==
    IF DOMAIN f = {} THEN 0
    ELSE LET key == CHOOSE x \in DOMAIN f : TRUE
         IN  f[key] + SumOfCounts([ x \in DOMAIN f \ { key } |-> f[x] ])

\* C26: when generate_all_passes returns on a fresh PassGenerator, the
\* with-passes count of every school is at most its total count; for every
\* grade, with_passes of a section is at most total_by_section of that
\* section, total_with_passes is the sum of the with_passes counts, and
\* the total_by_section counts add up to the size of the grade's roster.
C26_StatisticsConsistent ==
    (pc = "returned" /\ run = 1) =>
        /\ DOMAIN student_counts = DOMAIN grade_counts
        /\ \A school \in DOMAIN grade_counts :
               student_counts[school] <= grade_counts[school]
        /\ \A a \in 1..Len(grouped) :
               \A p \in 1..Len(grouped[a].v) :
                   LET school == grouped[a].k
                       g      == grouped[a].v[p].k
                       roster == grouped[a].v[p].v
                       st     == grade_section_stats[school][g]
                   IN  /\ \A sec \in DOMAIN st.with_passes :
                              /\ sec \in DOMAIN st.total_by_section
                              /\ st.with_passes[sec]
                                 <= st.total_by_section[sec]
                       /\ st.total_with_passes = SumOfCounts(st.with_passes)
                       /\ SumOfCounts(st.total_by_section) = Len(roster)
        /\ \A school \in DOMAIN grade_section_stats :
               /\ \E a \in 1..Len(grouped) : grouped[a].k = school
               /\ \A g \in DOMAIN grade_section_stats[school] :
                      \E a \in 1..Len(grouped) :
                          /\ grouped[a].k = school
                          /\ \E p \in 1..Len(grouped[a].v) :
                                 grouped[a].v[p].k = g

\* A returned run in which a school has a grade of two students of one
\* section with passes, or a grade with passes next to one without.
C26_Witness ==
    /\ pc = "returned"
    /\ run = 1
    /\ \E school \in DOMAIN grade_counts :
           /\ student_counts[school] >= 1
           /\ grade_counts[school] = 2
           /\ \E g \in DOMAIN grade_section_stats[school] :
                  grade_section_stats[school][g].total_with_passes >= 1

\* C27: generate_all_passes calls generate_grade_passes only with a roster
\* that is not empty and whose students all have the school and grade of
\* the call, and with an exam list that is not empty; so no pass takes its
\* title from the fallback name instead of an exam, and no saved document
\* has zero pages.
C27_GeneratorCalledWithRosterAndExams ==
    /\ pc \in { "open", "draw", "generated" } =>
           /\ grade_students # << >>
           /\ \A n \in 1..Len(grade_students) :
                  /\ grade_students[n].school = school_name
                  /\ grade_students[n].grade = grade
           /\ grade_exams # << >>
           /\ HeaderExamName(grade_exams) = grade_exams[1].exam_name
    /\ LET marks == MarksOf(canvas)
       IN  \A k \in 1..Len(marks) :
               marks[k].op = "pass" => marks[k].exams # << >>
    /\ \A path \in DOMAIN files :
           files[path].complete =>
               /\ files[path].pages # << >>
               /\ \A k \in 1..Len(files[path].pages) :
                      \A m \in 1..Len(files[path].pages[k]) :
                          files[path].pages[k][m].op = "pass" =>
                              files[path].pages[k][m].exams # << >>

\* A document was saved for a grade next to a grade without exams that was
\* passed over.
C27_Witness ==
    /\ pc = "generated"
    /\ success
    /\ output_path \in DOMAIN files
    /\ files[output_path].pages # << >>
    /\ HeaderExamName(files[output_path].pages[1][1].exams) = TermI
    /\ \E a \in 1..Len(grouped) :
           /\ grouped[a].k = school_name
           /\ \E p \in 1..Len(grouped[a].v) :
                  ExamsFor(school_name, grouped[a].v[p].k) = << >>

\* C28: for every generated PDF the exam series name in the file name and
\* the one in the title of every pass inside it are the name of the same
\* exam, the first of the date-sorted exam list of the (school, grade) pair,
\* also when the exams of the grade carry different series names.
C28_FileNameAndTitleAgree ==
    /\ pc \in { "open", "draw", "generated" } =>
           /\ grade_exams = ExamsFor(school_name, grade)
           /\ output_path = get_output_path(school_name, grade,
                                            HeaderExamName(grade_exams))
    /\ LET marks == MarksOf(canvas)
       IN  \A k \in 1..Len(marks) :
               marks[k].op = "pass" =>
                   canvas.path
                   = get_output_path(marks[k].student.school,
                                     marks[k].student.grade,
                                     HeaderExamName(marks[k].exams))
    /\ \A path \in GeneratedPaths :
           \A k \in 1..Len(files[path].pages) :
               \A m \in 1..Len(files[path].pages[k]) :
                   LET mark == files[path].pages[k][m]
                   IN  mark.op = "pass" =>
                           /\ HeaderExamName(mark.exams)
                              = ExamsFor(mark.student.school,
                                         mark.student.grade)[1].exam_name
                           /\ path = get_output_path(
                                         mark.student.school,
                                         mark.student.grade,
                                         HeaderExamName(mark.exams))

\* A PDF was generated for a grade whose two exams carry different series
\* names, and the later row of the table is the earlier exam.
C28_Witness ==
    /\ pc = "returned"
    /\ Len(exams) = 2
    /\ exams[1].exam_name # exams[2].exam_name
    /\ exams[1].exam_date = Date9Aug
    /\ \E path \in GeneratedPaths :
           /\ path = get_output_path(ExcelCentral, Grade09, TermI)
           /\ Len(files[path].pages[1][1].exams) = 2

\* C29: an exam labelled Grade 10, Grade 11 or Grade 12 is in the filtered
\* list of no student grade at any school, an exam labelled IGCSE Jr is
\* not in the list of Grade 09; an exam is in the list of a (school, grade)
\* group only if it is of that school and its label is the exam-filter
\* mapping of the student grade.
C29_NumberedExamLabelsMatchNothing ==
    pc = "filtered" =>
        \A n \in 1..Len(grade_exams) :
            /\ grade_exams[n].grade
               \notin { << "G", "r", "a", "d", "e", " ", "1", "0" >>,
                        << "G", "r", "a", "d", "e", " ", "1", "1" >>,
                        << "G", "r", "a", "d", "e", " ", "1", "2" >> }
            /\ grade = << "G", "r", "a", "d", "e", " ", "0", "9" >> =>
                   grade_exams[n].grade
                   # << "I", "G", "C", "S", "E", " ", "J", "r" >>
            /\ grade_exams[n].grade = ExamLabelTable
            /\ grade_exams[n].school = school_name
            /\ \E k \in 1..Len(exams) : exams[k] = grade_exams[n]

\* The table holds an exam labelled Grade 10 and an IGCSE exam of the
\* school; the Grade 10 roster gets the IGCSE exam only.
C29_Witness ==
    /\ pc = "filtered"
    /\ grade = Grade10
    /\ Len(exams) = 2
    /\ exams[1].grade = Grade10
    /\ exams[1].school = school_name
    /\ exams[2].grade = IGCSE
    /\ exams[2].school = school_name
    /\ grade_exams = << exams[2] >>

\* The calendar date that a printed date DD Mon YYYY denotes.
ReadPrinted(out) ==
    LET mon == << << "J", "a", "n" >>, << "F", "e", "b" >>,
                  << "M", "a", "r" >>, << "A", "p", "r" >>,
                  << "M", "a", "y" >>, << "J", "u", "n" >>,
                  << "J", "u", "l" >>, << "A", "u", "g" >>,
                  << "S", "e", "p" >>, << "O", "c", "t" >>,
                  << "N", "o", "v" >>, << "D", "e", "c" >> >>
    IN  [ kind |-> "datetime",
          y |-> NumVal(SubSeq(out, 8, 11)),
          m |-> CHOOSE k \in 1..12 : mon[k] = SubSeq(out, 4, 6),
          d |-> NumVal(SubSeq(out, 1, 2)) ]

\* C30: for every exam date string the sort key and the printed date agree:
\* parse_date and formatted_date both read the string or both fail, they
\* read it by the same format, and the printed date is the calendar date of
\* the sort key; so the printed schedule of a grade whose dates all parse
\* is in non-decreasing order of the printed dates.
C30_SortKeyAndPrintedDateAgree ==
    pc = "printed" =>
        /\ Len(result) = 1 + Len(grade_exams)
        /\ \A n \in 1..Len(grade_exams) :
               LET raw   == grade_exams[n].exam_date
                   key   == parse_date(raw)
                   out   == result[n + 1].exam_date
                   sorts == { k \in 1..Len(date_formats) :
                                Strptime(Strip(raw), date_formats[k]) # None }
                   shows == { k \in 1..Len(exam_date_formats) :
                                Strptime(Strip(raw), exam_date_formats[k])
                                # None }
               IN  /\ key = None <=> shows = {}
                   /\ key = None => out = raw
                   /\ key # None =>
                          /\ (CHOOSE k \in sorts : \A j \in sorts : k <= j)
                             = (CHOOSE k \in shows : \A j \in shows : k <= j)
                          /\ Len(out) = 11
                          /\ ReadPrinted(out) = key
        /\ (\A n \in 1..Len(grade_exams) :
                parse_date(grade_exams[n].exam_date) # None) =>
               \A n \in 1..(Len(grade_exams) - 1) :
                   ~DateLess(ReadPrinted(result[n + 2].exam_date),
                             ReadPrinted(result[n + 1].exam_date))

\* Three exams written month-first, year-first and day-first, in reverse
\* order of their dates, are printed from 06 Aug to 13 Aug.
C30_Witness ==
    /\ pc = "printed"
    /\ Len(exams) = 3
    /\ exams[1].exam_date = << "8", "/", "1", "3", "/", "2", "5" >>
    /\ exams[2].exam_date
       = << "2", "0", "2", "5", "-", "0", "8", "-", "0", "9" >>
    /\ exams[3].exam_date = Date6Aug
    /\ result[2].exam_date
       = << "0", "6", " ", "A", "u", "g", " ", "2", "0", "2", "5" >>
    /\ result[3].exam_date
       = << "0", "9", " ", "A", "u", "g", " ", "2", "0", "2", "5" >>
    /\ result[4].exam_date
       = << "1", "3", " ", "A", "u", "g", " ", "2", "0", "2", "5" >>

====
